---- MODULE Spec2Model ----
(***************************************************************************)
(* Crawl-frontier engine of agro_scraper                                   *)
(* (src/src/large_scale_scraper.py, src/config/settings.py).               *)
(*                                                                         *)
(* Text is a sequence of one-character strings; a score is an integer      *)
(* number of tenths (2.0 -> 20, 0.1 -> 1, 1.0 -> 10, threshold 0.5 -> 5).  *)
(***************************************************************************)
EXTENDS Integers, Sequences, FiniteSets, TLC

----------------------------------------------------------------------------
(* Bounds of the model.                                                    *)

\* longest title and body, in chunks of Vocabulary, given to the scorer
MaxTitleChunks == 2
MaxContentChunks == 2
\* longest category list given to the scorer
MaxCategories == 1
\* transport, entry-point and disk errors injected in one run
MaxFaults == 2
\* longest text, in chunks of Vocabulary, appended to a body
MaxAppendedChunks == 1

----------------------------------------------------------------------------
(* Configuration (src/config/settings.py), limits scaled down.             *)

AGRICULTURE_KEYWORDS ==
    <<
       <<"a","g","r","i","c","u","l","t","u","r","e">>,
       <<"f","a","r","m">>,
       <<"c","r","o","p">>,
       <<"s","o","i","l">>,
       <<"i","r","r","i","g","a","t","i","o","n">>,
       <<"h","a","r","v","e","s","t">>,
       <<"l","i","v","e","s","t","o","c","k">>,
       <<"o","r","g","a","n","i","c">>,
       <<"s","u","s","t","a","i","n","a","b","l","e">>,
       <<"h","o","r","t","i","c","u","l","t","u","r","e">>,
       <<"a","g","r","i">>,
       <<"f","a","r","m","i","n","g">>,
       <<"c","u","l","t","i","v","a","t","i","o","n">>,
       <<"c","a","t","t","l","e">>,
       <<"p","o","u","l","t","r","y">>,
       <<"f","e","r","t","i","l","i","z","e","r">>,
       <<"p","e","s","t","i","c","i","d","e">>,
       <<"a","g","r","o","n","o","m","y">>,
       <<"h","y","d","r","o","p","o","n","i","c","s">>,
       <<"g","r","e","e","n","h","o","u","s","e">>,
       <<"a","g","r","i","c","u","l","t","u","r","a","l">>,
       <<"a","g","r","o">>,
       <<"y","i","e","l","d">>,
       <<"p","l","a","n","t","a","t","i","o","n">>,
       <<"o","r","c","h","a","r","d">>,
       <<"p","a","s","t","u","r","e">>,
       <<"d","a","i","r","y">>,
       <<"m","e","a","t">>,
       <<"w","o","o","l">>,
       <<"f","i","b","e","r">>,
       <<"f","e","e","d">>,
       <<"f","o","r","a","g","e">>,
       <<"s","i","l","a","g","e">>,
       <<"c","o","m","p","o","s","t">>,
       <<"m","a","n","u","r","e">>,
       <<"t","i","l","l","a","g","e">>,
       <<"h","a","r","v","e","s","t","e","r">>,
       <<"t","r","a","c","t","o","r">>,
       <<"i","r","r","i","g","a","t","e">>,
       <<"a","q","u","a","c","u","l","t","u","r","e">>,
       <<"f","i","s","h","e","r","y">>,
       <<"f","o","r","e","s","t","r","y">>,
       <<"t","i","m","b","e","r">>,
       <<"l","u","m","b","e","r">>,
       <<"s","i","l","v","i","c","u","l","t","u","r","e">>,
       <<"a","g","r","i","b","u","s","i","n","e","s","s">>,
       <<"f","o","o","d"," ","s","e","c","u","r","i","t","y">>,
       <<"c","r","o","p"," ","r","o","t","a","t","i","o","n">>,
       <<"s","o","i","l"," ","c","o","n","s","e","r","v","a","t","i","o","n">>
    >>
\* SCRAPING_CONFIG['max_pages_per_category'] (500 in the source)
max_pages_per_category == 4
\* SCRAPING_CONFIG['max_links_per_page'] (100 in the source)
max_links_per_page == 3
\* SCRAPING_CONFIG['max_depth']
max_depth == 3
\* SCRAPING_CONFIG['max_total_pages'] (10000 in the source)
max_total_pages == 4
\* batch_size of run_comprehensive_scraping (100 in the source)
batch_size == 2
\* ThreadPoolExecutor(max_workers=5) of scrape_batch (5 in the source)
max_workers == 2
\* agriculture_score < 0.5, in tenths
score_threshold == 5
\* agriculture_score > 1.0, in tenths
agriculture_page_score == 10

----------------------------------------------------------------------------
(* Python str operations on sequences of characters.                       *)

chars ==
    (
       "Portal:Agriculture" :> <<"P","o","r","t","a","l",":","A","g","r","i","c","u","l","t","u","r","e">> @@
       "Category:Crops" :> <<"C","a","t","e","g","o","r","y",":","C","r","o","p","s">> @@
       "Category:Games" :> <<"C","a","t","e","g","o","r","y",":","G","a","m","e","s">> @@
       "Agri" :> <<"A","g","r","i">> @@
       "culture" :> <<"c","u","l","t","u","r","e">> @@
       "Farm" :> <<"F","a","r","m">> @@
       "Farms" :> <<"F","a","r","m","s">> @@
       "Farming" :> <<"F","a","r","m","i","n","g">> @@
       "Sports" :> <<"S","p","o","r","t","s">> @@
       "Soil" :> <<"S","o","i","l">> @@
       "Crop" :> <<"C","r","o","p">> @@
       "Sport" :> <<"S","p","o","r","t">> @@
       "Bread" :> <<"B","r","e","a","d">> @@
       "Ghost farm" :> <<"G","h","o","s","t"," ","f","a","r","m">> @@
       "Yield" :> <<"Y","i","e","l","d">> @@
       "A farm has soil" :> <<"A"," ","f","a","r","m"," ","h","a","s"," ","s","o","i","l">> @@
       "Soil for a crop" :> <<"S","o","i","l"," ","f","o","r"," ","a"," ","c","r","o","p">> @@
       "One crop" :> <<"O","n","e"," ","c","r","o","p">> @@
       "farm crop soil meat" :> <<"f","a","r","m"," ","c","r","o","p"," ","s","o","i","l"," ","m","e","a","t">> @@
       "farm crop soil meat wool" :> <<"f","a","r","m"," ","c","r","o","p"," ","s","o","i","l"," ","m","e","a","t"," ","w","o","o","l">> @@
       "" :> <<>> @@
       "Crop yield" :> <<"C","r","o","p"," ","y","i","e","l","d">> @@
       "Crops" :> <<"C","r","o","p","s">> @@
       "Games" :> <<"G","a","m","e","s">> @@
       "Food" :> <<"F","o","o","d">>
    )
upper_case == <<"A","B","C","D","E","F","G","H","I","J","K","L","M",
                "N","O","P","Q","R","S","T","U","V","W","X","Y","Z">>
lower_case == <<"a","b","c","d","e","f","g","h","i","j","k","l","m",
                "n","o","p","q","r","s","t","u","v","w","x","y","z">>

\* str.lower() of one character
lower_char(c) ==
    IF \E n \in 1..26 : upper_case[n] = c
    THEN lower_case[CHOOSE n \in 1..26 : upper_case[n] = c]
    ELSE c

\* str.lower()
lower(s) == [n \in 1..Len(s) |-> lower_char(s[n])]

\* keyword in text
contains(text, keyword) ==
    \E n \in 1..(Len(text) - Len(keyword) + 1) :
        SubSeq(text, n, n + Len(keyword) - 1) = keyword

\* text.count(keyword): non-overlapping occurrences, scanning from the left
RECURSIVE count_from(_, _, _)
count_from(text, keyword, n) ==
    IF n + Len(keyword) - 1 > Len(text) THEN 0
    ELSE IF SubSeq(text, n, n + Len(keyword) - 1) = keyword
         THEN 1 + count_from(text, keyword, n + Len(keyword))
         ELSE count_from(text, keyword, n + 1)

count(text, keyword) == count_from(text, keyword, 1)

\* len(text.split()): maximal runs of non-blank characters
word_count_of(text) ==
    Cardinality({n \in 1..Len(text) :
        text[n] # " " /\ (n = 1 \/ text[n - 1] = " ")})

\* concatenation of a sequence of strings of the table
RECURSIVE concat(_)
concat(names) ==
    IF names = <<>> THEN <<>> ELSE chars[Head(names)] \o concat(Tail(names))

----------------------------------------------------------------------------
(* RelevanceScorer: calculate_agriculture_score.                           *)

\* for keyword in AGRICULTURE_KEYWORDS: if keyword in title_lower: score += 2.0
RECURSIVE title_score(_, _)
title_score(title_lower, k) ==
    IF k > Len(AGRICULTURE_KEYWORDS) THEN 0
    ELSE (IF contains(title_lower, AGRICULTURE_KEYWORDS[k]) THEN 20 ELSE 0)
         + title_score(title_lower, k + 1)

\* for keyword in AGRICULTURE_KEYWORDS: score += content_lower.count(keyword) * 0.1
RECURSIVE content_score(_, _)
content_score(content_lower, k) ==
    IF k > Len(AGRICULTURE_KEYWORDS) THEN 0
    ELSE count(content_lower, AGRICULTURE_KEYWORDS[k])
         + content_score(content_lower, k + 1)

\* for keyword in AGRICULTURE_KEYWORDS: if keyword in category_lower: score += 1.0
RECURSIVE category_score(_, _)
category_score(category_lower, k) ==
    IF k > Len(AGRICULTURE_KEYWORDS) THEN 0
    ELSE (IF contains(category_lower, AGRICULTURE_KEYWORDS[k]) THEN 10 ELSE 0)
         + category_score(category_lower, k + 1)

\* for category in categories: category_lower = category.lower(); ...
RECURSIVE categories_score(_, _)
categories_score(cats, c) ==
    IF c > Len(cats) THEN 0
    ELSE category_score(lower(cats[c]), 1) + categories_score(cats, c + 1)

\* the score with the body counted as keyword density, not keyword count
score_by_density(page_title, content, cats) ==
    title_score(lower(page_title), 1)
    + (content_score(lower(content), 1) * 8) \div (Len(content) + 1)
    + categories_score(cats, 1)

\* the score with the title not lower-cased before the keyword test
score_of_raw_title(page_title, content, cats) ==
    title_score(page_title, 1)
    + content_score(lower(content), 1)
    + categories_score(cats, 1)

calculate_agriculture_score(page_title, content, cats) ==
    title_score(lower(page_title), 1)
    + content_score(lower(content), 1)
    + categories_score(cats, 1)

----------------------------------------------------------------------------
(* PageFetcher: what wikipediaapi answers for a name.  Every fetch may     *)
(* also raise a transport error (see the actions).                         *)

Titles ==
    {"Farm", "Farms", "Soil", "Crop", "Sport", "Bread", "Ghost farm", "Yield",
     "Games", "Food", "Sports"}

no_page == [exists |-> FALSE, text |-> "", categories |-> <<>>,
            links |-> <<>>, categorymembers |-> <<>>]

wiki ==
    ( "Portal:Agriculture" :>
        [no_page EXCEPT !.exists = TRUE,
                        !.links = <<"Farm", "Sport", "Ghost farm", "Yield">>] @@
      "Portal:Nothing" :> no_page @@
      "Portal:Farming" :>
        [no_page EXCEPT !.exists = TRUE, !.links = <<"Farm", "Farms">>] @@
      "Category:Crops" :>
        [no_page EXCEPT !.exists = TRUE,
                        !.categorymembers = <<"Soil", "Bread", "Sport">>] @@
      "Category:Games" :>
        [no_page EXCEPT !.exists = TRUE,
                        !.categorymembers =
                            <<"Sport", "Games", "Food", "Sports", "Bread">>] @@
      "Games" :> [no_page EXCEPT !.exists = TRUE] @@
      "Food" :> [no_page EXCEPT !.exists = TRUE] @@
      "Sports" :> [no_page EXCEPT !.exists = TRUE] @@
      "Category:Irrigation" :>
        [no_page EXCEPT !.exists = TRUE,
                        !.categorymembers = <<"Farm", "Soil">>] @@
      "Farm" :>
        [no_page EXCEPT !.exists = TRUE, !.text = "A farm has soil",
                        !.categories = <<"Farming">>,
                        !.links = <<"Sport", "Soil">>] @@
      "Farms" :>
        [no_page EXCEPT !.exists = TRUE, !.text = "A farm has soil",
                        !.categories = <<"Farming">>,
                        !.links = <<"Sport", "Soil">>] @@
      "Soil" :>
        [no_page EXCEPT !.exists = TRUE, !.text = "Soil for a crop",
                        !.links = <<"Farm", "Sport", "Crop", "Yield">>] @@
      "Crop" :>
        [no_page EXCEPT !.exists = TRUE, !.text = "One crop",
                        !.categories = <<"Crops">>,
                        !.links = <<"Yield">>] @@
      "Sport" :>
        [no_page EXCEPT !.exists = TRUE, !.text = "farm crop soil meat",
                        !.categories = <<"Games">>,
                        !.links = <<"Farm">>] @@
      "Bread" :>
        [no_page EXCEPT !.exists = TRUE, !.text = "farm crop soil meat wool",
                        !.categories = <<"Food">>,
                        !.links = <<"Soil", "Farm">>] @@
      "Ghost farm" :> no_page @@
      "Yield" :>
        [no_page EXCEPT !.exists = TRUE, !.text = "Crop yield"] )

\* page.title once the page is fetched: the title the API answers with,
\* which for the redirect 'Farms' is the title of its target
canonical_title == [t \in Titles |-> IF t = "Farms" THEN "Farm" ELSE t]

\* the configurations of entry points a run is started with
Configs ==
    { [portals |-> <<>>, categories |-> <<>>],
      [portals |-> <<"Portal:Agriculture">>, categories |-> <<>>],
      [portals |-> <<"Portal:Nothing", "Portal:Agriculture">>, categories |-> <<>>],
      [portals |-> <<"Portal:Farming">>, categories |-> <<>>],
      [portals |-> <<>>, categories |-> <<"Category:Crops">>],
      [portals |-> <<>>, categories |-> <<"Category:Games">>],
      [portals |-> <<"Portal:Agriculture">>,
       categories |-> <<"Category:Irrigation">>] }

\* lst[:n]
take(lst, n) == SubSeq(lst, 1, IF Len(lst) < n THEN Len(lst) ELSE n)

\* list(category.keys()) of a sequence of names as a sequence of texts
RECURSIVE texts_of(_)
texts_of(names) ==
    IF names = <<>> THEN <<>> ELSE <<chars[Head(names)]>> \o texts_of(Tail(names))

\* calculate_agriculture_score(page_title, page.text, list(page.categories.keys()))
page_score ==
    [t \in Titles |->
        calculate_agriculture_score(chars[t], chars[wiki[t].text],
                                    texts_of(wiki[t].categories))]

\* 'agriculture' in page_title.lower()
title_override(t) ==
    contains(lower(chars[t]), <<"a","g","r","i","c","u","l","t","u","r","e">>)

\* AgriculturePage(title=page.title,
\*                 links=list(page.links.keys())[:max_links_per_page], ...);
\* requested is history: the page_title the page was fetched under
AgriculturePage(t) ==
    [title |-> canonical_title[t],
     requested |-> t,
     links |-> take(wiki[t].links, max_links_per_page),
     word_count |-> word_count_of(chars[wiki[t].text]),
     agriculture_score |-> page_score[t]]

\* the pre-filter looking for a keyword in the title or in the body
is_related_by_text(t) ==
    \E k \in 1..Len(AGRICULTURE_KEYWORDS) :
        \/ contains(lower(chars[t]), AGRICULTURE_KEYWORDS[k])
        \/ contains(lower(chars[wiki[t].text]), AGRICULTURE_KEYWORDS[k])

\* is_agriculture_related(title)
is_agriculture_related(t) ==
    \E k \in 1..Len(AGRICULTURE_KEYWORDS) :
        contains(lower(chars[t]), AGRICULTURE_KEYWORDS[k])

----------------------------------------------------------------------------
(* State of LargeScaleAgricultureScraper and of one run.                   *)

VARIABLES
    AGRICULTURE_PORTALS,     \* configured portal names
    AGRICULTURE_CATEGORIES,  \* configured category names
    SCRAPING_CONFIG,         \* the settings a run reads: max_depth
    executor_max_workers,    \* threads of the pool of scrape_batch
    pc,                      \* position of the control thread
    next_entry,              \* index of the entry point enumerated next
    scraped_titles,
    queued_titles,
    failed_titles,
    scraped_pages,           \* the result list
    stats,                   \* total_scraped, total_words, agriculture_pages
    all_pages_to_scrape,     \* the candidate list
    range_stop,              \* len(all_pages_to_scrape) when range() was built
    i,                       \* loop variable of the batch loop
    batch_number,
    futures,                 \* the tasks of the batch in the pool
    scraped_batch,           \* pages collected from the batch, completion order
    explore_next,            \* index in scraped_batch of the page expanded next
    disk,                    \* files written by save_progress, oldest first
    faults,                  \* errors raised so far
    attempts,                \* history: fetches dispatched per title
    admissions,              \* history: admissions per title
    path_len,                \* history: links from the entry point at admission
    admitted_depth,          \* history: depth of the call that admitted the title
    expanded_depth,          \* history: depth of the call that expanded the page
    last_outcome,            \* history: how the last fetch of the title resolved
    pacing,                  \* history: each pool worker's fetches and sleeps
    sc_pc, sc_title, sc_content, sc_categories, sc_score,  \* scorer harness
    sc_appended, sc_score_longer,  \* scorer harness: text appended to the body
    visited,                 \* recursive scraper: the set of urls entered
    results,                 \* recursive scraper: the articles collected
    output_file,             \* recursive scraper: OUTPUT_FILE on disk
    call_stack,              \* recursive scraper: frames of recursive_scrape
    main_pc,                 \* recursive scraper: position of __main__
    runs,                    \* recursive scraper: processes started so far
    web_faults,              \* recursive scraper: requests that failed so far
    visited_at,              \* history: depth at which the url was entered
    extracted_at,            \* history: depth at which its links were extracted
    scrapes,                 \* history: scrape_article calls per url in this run
    loaded,                  \* history: urls taken from OUTPUT_FILE in this run
    AGRICULTURE_TOPICS,      \* enhanced scraper: the configured topic names
    topics_pc,               \* enhanced scraper: position of the call
    topic_next,              \* index of the topic scraped next
    all_pages,               \* scrape_all_agriculture_topics: all_pages
    main_topic,              \* scrape_topic_network: main_topic
    max_pages,               \* scrape_topic_network: max_pages
    topic_pages,             \* scrape_topic_network: its list scraped_pages
    related_pages,           \* scrape_topic_network: related_pages
    related_next,            \* index of the related page looked at next
    enhanced_stats,          \* EnhancedAgricultureScraper.stats
    enhanced_scraped_pages,  \* EnhancedAgricultureScraper.scraped_pages
    api_faults,              \* requests of the enhanced scraper that failed
    collected,               \* history: every page the networks returned
    scrape_calls,            \* history: scrape_page calls of this network
    returned                 \* the list the call returned

crawl_vars ==
    <<AGRICULTURE_PORTALS, AGRICULTURE_CATEGORIES, SCRAPING_CONFIG,
      executor_max_workers, pc, next_entry,
      scraped_titles, queued_titles, failed_titles, scraped_pages, stats,
      all_pages_to_scrape, range_stop, i, batch_number, futures,
      scraped_batch, explore_next, disk, faults, attempts, admissions,
      path_len, admitted_depth, expanded_depth, last_outcome, pacing>>

score_vars == <<sc_pc, sc_title, sc_content, sc_categories, sc_score,
                sc_appended, sc_score_longer>>

recursive_vars ==
    <<visited, results, output_file, call_stack, main_pc, runs, web_faults,
      visited_at, extracted_at, scrapes, loaded>>

enhanced_vars ==
    <<AGRICULTURE_TOPICS, topics_pc, topic_next, all_pages, main_topic,
      max_pages, topic_pages, related_pages, related_next, enhanced_stats,
      enhanced_scraped_pages, api_faults, collected, scrape_calls, returned>>

\* the state of the other programs of the repository
other_vars == <<recursive_vars, enhanced_vars>>

vars == <<crawl_vars, score_vars, other_vars>>

\* __init__
InitScraper ==
    /\ pc = "portals"
    /\ next_entry = 1
    /\ scraped_titles = {}
    /\ queued_titles = {}
    /\ failed_titles = {}
    /\ scraped_pages = <<>>
    /\ stats = [total_scraped |-> 0, total_words |-> 0, agriculture_pages |-> 0]
    /\ all_pages_to_scrape = <<>>
    /\ range_stop = 0
    /\ i = 0
    /\ batch_number = 0
    /\ futures = <<>>
    /\ scraped_batch = <<>>
    /\ explore_next = 1
    /\ disk = <<>>
    /\ faults = 0
    /\ attempts = [t \in Titles |-> 0]
    /\ admissions = [t \in Titles |-> 0]
    /\ path_len = [t \in Titles |-> 0]
    /\ admitted_depth = [t \in Titles |-> 0]
    /\ expanded_depth = [t \in Titles |-> 0]
    /\ last_outcome = [t \in Titles |-> "none"]
    /\ pacing = [w \in 1..max_workers |-> "fresh"]

InitScoreIdle ==
    /\ sc_pc = "idle"
    /\ sc_title = <<>>
    /\ sc_content = <<>>
    /\ sc_categories = <<>>
    /\ sc_score = 0
    /\ sc_appended = <<>>
    /\ sc_score_longer = 0

\* the recursive scraper not started
InitRecursiveIdle ==
    /\ visited = {}
    /\ results = <<>>
    /\ output_file = [exists |-> FALSE, content |-> <<>>]
    /\ call_stack = <<>>
    /\ main_pc = "idle"
    /\ runs = 0
    /\ web_faults = 0
    /\ visited_at = <<>>
    /\ extracted_at = <<>>
    /\ scrapes = <<>>
    /\ loaded = {}

\* EnhancedAgricultureScraper.__init__
InitEnhanced ==
    /\ enhanced_stats = [total_pages |-> 0, successful_scrapes |-> 0,
                         failed_scrapes |-> 0, total_words |-> 0]
    /\ enhanced_scraped_pages = <<>>
    /\ topic_next = 1
    /\ all_pages = <<>>
    /\ topic_pages = <<>>
    /\ related_pages = <<>>
    /\ related_next = 1
    /\ api_faults = 0
    /\ collected = <<>>
    /\ scrape_calls = 0
    /\ returned = <<>>

\* the enhanced scraper not called
InitEnhancedIdle ==
    /\ InitEnhanced
    /\ AGRICULTURE_TOPICS = <<>>
    /\ topics_pc = "idle"
    /\ main_topic = ""
    /\ max_pages = 0

InitOthersIdle == InitRecursiveIdle /\ InitEnhancedIdle

Init ==
    /\ \E c \in Configs :
        /\ AGRICULTURE_PORTALS = c.portals
        /\ AGRICULTURE_CATEGORIES = c.categories
    /\ SCRAPING_CONFIG = [max_depth |-> max_depth]
    /\ executor_max_workers = max_workers
    /\ InitScraper
    /\ InitOthersIdle
    /\ InitScoreIdle

\* a run whose pool has fewer threads than a batch has titles, as 5 to 100
InitNarrowPool ==
    /\ \E c \in Configs :
        /\ AGRICULTURE_PORTALS = c.portals
        /\ AGRICULTURE_CATEGORIES = c.categories
    /\ SCRAPING_CONFIG = [max_depth |-> max_depth]
    /\ executor_max_workers = batch_size - 1
    /\ InitScraper
    /\ InitOthersIdle
    /\ InitScoreIdle

\* a run configured with SCRAPING_CONFIG['max_depth'] = 1
InitDepthOne ==
    /\ \E c \in Configs :
        /\ AGRICULTURE_PORTALS = c.portals
        /\ AGRICULTURE_CATEGORIES = c.categories
    /\ SCRAPING_CONFIG = [max_depth |-> 1]
    /\ executor_max_workers = max_workers
    /\ InitScraper
    /\ InitOthersIdle
    /\ InitScoreIdle

----------------------------------------------------------------------------
(* FrontierExpander.                                                       *)

range_of(s) == {s[n] : n \in 1..Len(s)}

\* the loop of get_portal_links
RECURSIVE portal_loop(_, _, _, _)
portal_loop(link_titles, scraped, queued, links) ==
    IF link_titles = <<>> THEN [links |-> links, queued |-> queued]
    ELSE LET link_title == Head(link_titles) IN
         IF /\ link_title \notin scraped
            /\ link_title \notin queued
            /\ is_agriculture_related(link_title)
         THEN portal_loop(Tail(link_titles), scraped, queued \cup {link_title},
                          Append(links, link_title))
         ELSE portal_loop(Tail(link_titles), scraped, queued, links)

get_portal_links(portal_name, scraped, queued) ==
    IF ~wiki[portal_name].exists THEN [links |-> <<>>, queued |-> queued]
    ELSE portal_loop(take(wiki[portal_name].links, max_links_per_page),
                     scraped, queued, <<>>)

\* the loop of get_category_pages
RECURSIVE category_loop(_, _, _, _)
category_loop(members, scraped, queued, pages) ==
    IF members = <<>> THEN [links |-> pages, queued |-> queued]
    ELSE LET page_title == Head(members) IN
         IF page_title \notin scraped /\ page_title \notin queued
         THEN category_loop(Tail(members), scraped, queued \cup {page_title},
                            Append(pages, page_title))
         ELSE category_loop(Tail(members), scraped, queued, pages)

\* the members of the category returned without the claim in queued
get_category_pages_unclaimed(category_name, scraped, queued) ==
    IF ~wiki[category_name].exists THEN [links |-> <<>>, queued |-> queued]
    ELSE [links |-> take(wiki[category_name].categorymembers,
                         max_pages_per_category),
          queued |-> queued]

get_category_pages(category_name, scraped, queued) ==
    IF ~wiki[category_name].exists THEN [links |-> <<>>, queued |-> queued]
    ELSE category_loop(take(wiki[category_name].categorymembers,
                            max_pages_per_category),
                       scraped, queued, <<>>)

\* the loop of explore_links
RECURSIVE explore_loop(_, _, _, _)
explore_loop(link_titles, scraped, queued, new_links) ==
    IF link_titles = <<>> THEN [links |-> new_links, queued |-> queued]
    ELSE LET link_title == Head(link_titles) IN
         IF /\ is_agriculture_related(link_title)
            /\ link_title \notin scraped
            /\ link_title \notin queued
            /\ Cardinality(scraped) + Cardinality(queued) < max_total_pages
         THEN explore_loop(Tail(link_titles), scraped, queued \cup {link_title},
                           Append(new_links, link_title))
         ELSE explore_loop(Tail(link_titles), scraped, queued, new_links)

\* the depth test written with > : links are still followed at the limit
explore_links_at_limit(page_data, depth, scraped, queued) ==
    IF depth > SCRAPING_CONFIG.max_depth THEN [links |-> <<>>, queued |-> queued]
    ELSE explore_loop(page_data.links, scraped, queued, <<>>)

explore_links(page_data, depth, scraped, queued) ==
    IF depth >= SCRAPING_CONFIG.max_depth THEN [links |-> <<>>, queued |-> queued]
    ELSE explore_loop(page_data.links, scraped, queued, <<>>)

----------------------------------------------------------------------------
(* CrawlScheduler: seed enumeration (run_comprehensive_scraping, steps 1-2) *)

config_vars ==
    <<AGRICULTURE_PORTALS, AGRICULTURE_CATEGORIES, SCRAPING_CONFIG,
      executor_max_workers>>
loop_vars == <<range_stop, i, batch_number>>
worker_history == <<attempts, last_outcome, pacing>>
expander_history == <<admissions, path_len, admitted_depth, expanded_depth>>

\* history of an admission of the titles of links
admitted(links, length, depth) ==
    /\ admissions' = [t \in Titles |->
            IF t \in range_of(links) THEN admissions[t] + 1 ELSE admissions[t]]
    /\ path_len' = [t \in Titles |->
            IF t \in range_of(links) THEN length ELSE path_len[t]]
    /\ admitted_depth' = [t \in Titles |->
            IF t \in range_of(links) THEN depth ELSE admitted_depth[t]]

\* for portal in AGRICULTURE_PORTALS: all_pages_to_scrape.extend(get_portal_links(portal))
enumerate_portal ==
    /\ pc = "portals"
    /\ next_entry <= Len(AGRICULTURE_PORTALS)
    /\ LET r == get_portal_links(AGRICULTURE_PORTALS[next_entry],
                                 scraped_titles, queued_titles) IN
        /\ all_pages_to_scrape' = all_pages_to_scrape \o r.links
        /\ queued_titles' = r.queued
        /\ admitted(r.links, 1, 0)
    /\ next_entry' = next_entry + 1
    /\ UNCHANGED <<config_vars, pc, scraped_titles, failed_titles, scraped_pages,
                   stats, loop_vars, futures, scraped_batch, explore_next, disk,
                   faults, worker_history, expanded_depth, score_vars, other_vars>>

portals_done ==
    /\ pc = "portals"
    /\ next_entry > Len(AGRICULTURE_PORTALS)
    /\ pc' = "categories"
    /\ next_entry' = 1
    /\ UNCHANGED <<config_vars, scraped_titles, queued_titles, failed_titles,
                   scraped_pages, stats, all_pages_to_scrape, loop_vars, futures,
                   scraped_batch, explore_next, disk, faults, worker_history,
                   expander_history, score_vars, other_vars>>

\* for category in AGRICULTURE_CATEGORIES: ...extend(get_category_pages(category))
enumerate_category ==
    /\ pc = "categories"
    /\ next_entry <= Len(AGRICULTURE_CATEGORIES)
    /\ LET r == get_category_pages(AGRICULTURE_CATEGORIES[next_entry],
                                   scraped_titles, queued_titles) IN
        /\ all_pages_to_scrape' = all_pages_to_scrape \o r.links
        /\ queued_titles' = r.queued
        /\ admitted(r.links, 1, 0)
    /\ next_entry' = next_entry + 1
    /\ UNCHANGED <<config_vars, pc, scraped_titles, failed_titles, scraped_pages,
                   stats, loop_vars, futures, scraped_batch, explore_next, disk,
                   faults, worker_history, expanded_depth, score_vars, other_vars>>

\* self.wiki.page(name).exists() raises inside get_portal_links or
\* get_category_pages: neither has a try, the error leaves the run
entry_point_raises ==
    /\ \/ pc = "portals" /\ next_entry <= Len(AGRICULTURE_PORTALS)
       \/ pc = "categories" /\ next_entry <= Len(AGRICULTURE_CATEGORIES)
    /\ faults < MaxFaults
    /\ faults' = faults + 1
    /\ pc' = "raised"
    /\ UNCHANGED <<config_vars, next_entry, scraped_titles, queued_titles,
                   failed_titles, scraped_pages, stats, all_pages_to_scrape,
                   loop_vars, futures, scraped_batch, explore_next, disk,
                   worker_history, expander_history, score_vars, other_vars>>

\* the orders list(set(...)) can give
orders_of(S) ==
    {o \in [1..Cardinality(S) -> S] :
        \A m, n \in 1..Cardinality(S) : m # n => o[m] # o[n]}

\* all_pages_to_scrape = list(set(all_pages_to_scrape));
\* range(0, len(all_pages_to_scrape), batch_size) is built once, here
remove_duplicates ==
    /\ pc = "categories"
    /\ next_entry > Len(AGRICULTURE_CATEGORIES)
    /\ \E o \in orders_of(range_of(all_pages_to_scrape)) :
        /\ all_pages_to_scrape' = o
        /\ range_stop' = Len(o)
    /\ i' = 0
    /\ pc' = "loop"
    /\ UNCHANGED <<config_vars, next_entry, scraped_titles, queued_titles,
                   failed_titles, scraped_pages, stats, batch_number, futures,
                   scraped_batch, explore_next, disk, faults, worker_history,
                   expander_history, score_vars, other_vars>>

----------------------------------------------------------------------------
(* CrawlScheduler: the batch loop and the worker pool.                     *)

\* lst[a:b] with 0-based a, b
slice(lst, a, b) ==
    SubSeq(lst, a + 1, IF Len(lst) < b THEN Len(lst) ELSE b)

\* executor.submit(self.scrape_page_comprehensive, title)
submitted(title) == [title |-> title, pc |-> "pending", tmp |-> 0, worker |-> 0]

\* for i in range(...): cap check, batch = all_pages_to_scrape[i:i + batch_size],
\* scrape_batch submits page_titles[:batch_size] to the pool
next_batch ==
    /\ pc = "loop"
    /\ i < range_stop
    /\ Cardinality(scraped_titles) < max_total_pages
    /\ LET batch == take(slice(all_pages_to_scrape, i, i + batch_size), batch_size) IN
        /\ futures' = [f \in 1..Len(batch) |-> submitted(batch[f])]
        /\ attempts' = [t \in Titles |->
                attempts[t] + Cardinality({f \in 1..Len(batch) : batch[f] = t})]
    /\ pacing' = [w \in 1..max_workers |-> "fresh"]
    /\ batch_number' = batch_number + 1
    /\ scraped_batch' = <<>>
    /\ pc' = "batch"
    /\ UNCHANGED <<config_vars, next_entry, scraped_titles, queued_titles,
                   failed_titles, scraped_pages, stats, all_pages_to_scrape,
                   range_stop, i, explore_next, disk, faults, last_outcome,
                   expander_history, score_vars, other_vars>>

\* the range is exhausted, or len(self.scraped_titles) >= max_total_pages: break
loop_exit ==
    /\ pc = "loop"
    /\ i >= range_stop \/ Cardinality(scraped_titles) >= max_total_pages
    /\ pc' = "final_save"
    /\ UNCHANGED <<config_vars, next_entry, scraped_titles, queued_titles,
                   failed_titles, scraped_pages, stats, all_pages_to_scrape,
                   loop_vars, futures, scraped_batch, explore_next, disk, faults,
                   worker_history, expander_history, score_vars, other_vars>>

running(f) == futures[f].pc \notin {"pending", "done"}

\* the pool handing a work item to any thread, also one inside a work item
any_worker == 1..executor_max_workers

\* the threads of the pool that are not inside a work item
free_workers ==
    {w \in 1..executor_max_workers :
        \A g \in DOMAIN futures : running(g) => futures[g].worker # w}

\* a free worker of the pool takes the oldest work item
can_start(f) ==
    /\ pc = "batch"
    /\ futures[f].pc = "pending"
    /\ \A g \in 1..(f - 1) : futures[g].pc # "pending"
    /\ free_workers # {}

\* a worker's record after it issues a fetch: one that follows its previous
\* fetch with no sleep in between is marked
after_fetch(before) == IF before \in {"fetched", "unpaced"} THEN "unpaced" ELSE "fetched"

\* a worker's record after time.sleep(rate_limit_delay)
after_sleep(before) == IF before = "fetched" THEN "slept" ELSE before

\* the threshold test written with <= : a page scoring exactly 0.5 is dropped
rejected_at_threshold(t) == page_score[t] <= score_threshold /\ ~title_override(t)

\* agriculture_score < 0.5 and 'agriculture' not in page_title.lower(): return None
rejected(t) == page_score[t] < score_threshold /\ ~title_override(t)

\* what the fetch and the local computation of lines 114-145 come to
resolution(t) ==
    IF ~wiki[t].exists THEN "notfound"
    ELSE IF rejected(t) THEN "rejected"
    ELSE "accepted"

\* the except branch returning without recording the failure
continues_unrecorded(outcome) ==
    CASE outcome = "skipped" -> "done"
      [] outcome = "error" -> "done"
      [] outcome = "notfound" -> "failed_add"
      [] outcome = "rejected" -> "done"
      [] outcome = "accepted" -> "read_total_scraped"

\* where the worker goes on after lines 110-145
continues_at(outcome) ==
    CASE outcome = "skipped" -> "done"
      [] outcome = "error" -> "except_add"
      [] outcome = "notfound" -> "failed_add"
      [] outcome = "rejected" -> "done"
      [] outcome = "accepted" -> "read_total_scraped"

worker_step(f, at, to, tmp) ==
    /\ pc = "batch"
    /\ f \in DOMAIN futures
    /\ futures[f].pc = at
    /\ futures' = [futures EXCEPT ![f].pc = to, ![f].tmp = tmp]

\* scrape_page_comprehensive, lines 110-145: the check against scraped_titles,
\* the fetch (which may raise) and the scoring
fetch_page(f) ==
    /\ f \in DOMAIN futures
    /\ can_start(f)
    /\ LET t == futures[f].title IN
       \E w \in free_workers, outcome \in
            IF t \in scraped_titles THEN {"skipped"}
            ELSE {resolution(t)} \cup
                 (IF faults < MaxFaults THEN {"error"} ELSE {}) :
        /\ futures' = [futures EXCEPT ![f].pc = continues_at(outcome),
                                      ![f].worker = w]
        /\ pacing' = IF outcome = "skipped" THEN pacing
                     ELSE [pacing EXCEPT ![w] = after_fetch(pacing[w])]
        /\ faults' = IF outcome = "error" THEN faults + 1 ELSE faults
        /\ last_outcome' = [last_outcome EXCEPT ![t] = outcome]
    /\ UNCHANGED <<config_vars, pc, next_entry, scraped_titles, queued_titles,
                   failed_titles, scraped_pages, stats, all_pages_to_scrape,
                   loop_vars, scraped_batch, explore_next, disk, attempts,
                   expander_history, score_vars, other_vars>>

worker_frame ==
    UNCHANGED <<config_vars, pc, next_entry, scraped_pages, all_pages_to_scrape,
                loop_vars, explore_next, disk, faults, attempts, last_outcome,
                expander_history, score_vars, other_vars>>

\* a title with no page put into scraped_titles instead of failed_titles
mark_not_found_scraped(f) ==
    /\ worker_step(f, "failed_add", "done", 0)
    /\ scraped_titles' = scraped_titles \cup {futures[f].title}
    /\ UNCHANGED <<failed_titles, queued_titles, stats, scraped_batch, pacing>>
    /\ worker_frame

\* if not page.exists(): self.failed_titles.add(page_title); return None
mark_not_found(f) ==
    /\ worker_step(f, "failed_add", "done", 0)
    /\ failed_titles' = failed_titles \cup {futures[f].title}
    /\ UNCHANGED <<scraped_titles, queued_titles, stats, scraped_batch, pacing>>
    /\ worker_frame

\* self.stats['total_scraped'] += 1: the read
read_total_scraped(f) ==
    /\ worker_step(f, "read_total_scraped", "write_total_scraped",
                   stats.total_scraped)
    /\ UNCHANGED <<scraped_titles, queued_titles, failed_titles, stats,
                   scraped_batch, pacing>>
    /\ worker_frame

\* self.stats['total_scraped'] += 1: the write
write_total_scraped(f) ==
    /\ worker_step(f, "write_total_scraped", "read_total_words", 0)
    /\ stats' = [stats EXCEPT !.total_scraped = futures[f].tmp + 1]
    /\ UNCHANGED <<scraped_titles, queued_titles, failed_titles, scraped_batch, pacing>>
    /\ worker_frame

\* self.stats['total_words'] += page_data.word_count: the read
read_total_words(f) ==
    /\ worker_step(f, "read_total_words", "write_total_words", stats.total_words)
    /\ UNCHANGED <<scraped_titles, queued_titles, failed_titles, stats,
                   scraped_batch, pacing>>
    /\ worker_frame

\* self.stats['total_words'] += page_data.word_count: the write;
\* if agriculture_score > 1.0 the next statement is the third counter
write_total_words(f) ==
    /\ worker_step(f, "write_total_words",
                   IF page_score[futures[f].title] > agriculture_page_score
                   THEN "read_agriculture_pages" ELSE "scraped_add", 0)
    /\ stats' = [stats EXCEPT !.total_words =
                    futures[f].tmp + AgriculturePage(futures[f].title).word_count]
    /\ UNCHANGED <<scraped_titles, queued_titles, failed_titles, scraped_batch, pacing>>
    /\ worker_frame

\* self.stats['agriculture_pages'] += 1: the read
read_agriculture_pages(f) ==
    /\ worker_step(f, "read_agriculture_pages", "write_agriculture_pages",
                   stats.agriculture_pages)
    /\ UNCHANGED <<scraped_titles, queued_titles, failed_titles, stats,
                   scraped_batch, pacing>>
    /\ worker_frame

\* self.stats['agriculture_pages'] += 1: the write
write_agriculture_pages(f) ==
    /\ worker_step(f, "write_agriculture_pages", "scraped_add", 0)
    /\ stats' = [stats EXCEPT !.agriculture_pages = futures[f].tmp + 1]
    /\ UNCHANGED <<scraped_titles, queued_titles, failed_titles, scraped_batch, pacing>>
    /\ worker_frame

\* self.scraped_titles.add(page_title)
add_scraped(f) ==
    /\ worker_step(f, "scraped_add", "queued_discard", 0)
    /\ scraped_titles' = scraped_titles \cup {futures[f].title}
    /\ UNCHANGED <<queued_titles, failed_titles, stats, scraped_batch, pacing>>
    /\ worker_frame

\* a worker that appends the links of its page to the candidate list itself
discard_and_expand(f) ==
    /\ worker_step(f, "queued_discard", "done", 0)
    /\ queued_titles' = queued_titles \ {futures[f].title}
    /\ scraped_batch' = Append(scraped_batch, AgriculturePage(futures[f].title))
    /\ pacing' = [pacing EXCEPT ![futures[f].worker] = after_sleep(@)]
    /\ all_pages_to_scrape' =
            all_pages_to_scrape \o AgriculturePage(futures[f].title).links
    /\ UNCHANGED <<scraped_titles, failed_titles, stats, config_vars, pc,
                   next_entry, scraped_pages, loop_vars, explore_next, disk,
                   faults, attempts, last_outcome, expander_history, score_vars, other_vars>>

\* self.queued_titles.discard(page_title); sleep; return page_data:
\* as_completed hands the page to scrape_batch, which appends it
discard_queued(f) ==
    /\ worker_step(f, "queued_discard", "done", 0)
    /\ queued_titles' = queued_titles \ {futures[f].title}
    /\ scraped_batch' = Append(scraped_batch, AgriculturePage(futures[f].title))
    /\ pacing' = [pacing EXCEPT ![futures[f].worker] = after_sleep(@)]
    /\ UNCHANGED <<scraped_titles, failed_titles, stats>>
    /\ worker_frame

\* except Exception: self.failed_titles.add(page_title)
except_add_failed(f) ==
    /\ worker_step(f, "except_add", "except_discard", 0)
    /\ failed_titles' = failed_titles \cup {futures[f].title}
    /\ UNCHANGED <<scraped_titles, queued_titles, stats, scraped_batch, pacing>>
    /\ worker_frame

\* except Exception: self.queued_titles.discard(page_title); return None
except_discard_queued(f) ==
    /\ worker_step(f, "except_discard", "done", 0)
    /\ queued_titles' = queued_titles \ {futures[f].title}
    /\ UNCHANGED <<scraped_titles, failed_titles, stats, scraped_batch, pacing>>
    /\ worker_frame

\* scrape_batch returning with the first future that is done
collect_first ==
    /\ pc = "batch"
    /\ \E f \in DOMAIN futures : futures[f].pc = "done"
    /\ scraped_pages' = scraped_pages \o scraped_batch
    /\ pc' = "save"
    /\ UNCHANGED <<config_vars, next_entry, scraped_titles, queued_titles,
                   failed_titles, stats, all_pages_to_scrape, loop_vars, futures,
                   scraped_batch, explore_next, disk, faults, worker_history,
                   expander_history, score_vars, other_vars>>

\* scrape_batch's caller keeping the pages of the last batch only
collect_batch_replacing ==
    /\ pc = "batch"
    /\ \A f \in DOMAIN futures : futures[f].pc = "done"
    /\ scraped_pages' = scraped_batch
    /\ pc' = "save"
    /\ UNCHANGED <<config_vars, next_entry, scraped_titles, queued_titles,
                   failed_titles, stats, all_pages_to_scrape, loop_vars, futures,
                   scraped_batch, explore_next, disk, faults, worker_history,
                   expander_history, score_vars, other_vars>>

\* the with block of scrape_batch ends when every future is done;
\* self.scraped_pages.extend(scraped_batch)
collect_batch ==
    /\ pc = "batch"
    /\ \A f \in DOMAIN futures : futures[f].pc = "done"
    /\ scraped_pages' = scraped_pages \o scraped_batch
    /\ pc' = "save"
    /\ UNCHANGED <<config_vars, next_entry, scraped_titles, queued_titles,
                   failed_titles, stats, all_pages_to_scrape, loop_vars, futures,
                   scraped_batch, explore_next, disk, faults, worker_history,
                   expander_history, score_vars, other_vars>>

----------------------------------------------------------------------------
(* Checkpointer: save_progress and export_to_dataframe.                    *)

\* one row of export_to_dataframe
dataframe_row(page) ==
    [title |-> page.title,
     word_count |-> page.word_count,
     links_count |-> Len(page.links),
     agriculture_score |-> page.agriculture_score,
     is_high_agriculture |-> page.agriculture_score > 20]

export_to_dataframe(pages) == [n \in 1..Len(pages) |-> dataframe_row(pages[n])]

\* a file as save_progress leaves it; batch 0 is the file name without suffix
csv_file(batch, rows, complete) ==
    [kind |-> "csv", batch |-> batch, content |-> rows, complete |-> complete]
json_file(batch, pages, complete) ==
    [kind |-> "json", batch |-> batch, content |-> pages, complete |-> complete]

prefixes(s) == {SubSeq(s, 1, n) : n \in 0..(Len(s) - 1)}

\* save_progress without the test for an empty result list
save_outcomes_unguarded ==
    {"saved"} \cup (IF faults < MaxFaults THEN {"makedirs", "csv", "json"} ELSE {})

\* what one call of save_progress can come to
save_outcomes ==
    IF scraped_pages = <<>> THEN {"nothing"}
    ELSE {"saved"} \cup
         (IF faults < MaxFaults THEN {"makedirs", "csv", "json"} ELSE {})

\* save_progress writing, after a batch, the pages of that batch only
saved_files_of_batch(outcome, batch) ==
    LET pages == IF batch # 0 THEN scraped_batch ELSE scraped_pages
        rows == export_to_dataframe(pages) IN
    CASE outcome \in {"nothing", "makedirs"} -> {disk}
      [] outcome = "saved" ->
            {disk \o <<csv_file(batch, rows, TRUE),
                       json_file(batch, pages, TRUE)>>}
      [] outcome = "csv" ->
            {disk} \cup {Append(disk, csv_file(batch, p, FALSE)) : p \in prefixes(rows)}
      [] outcome = "json" ->
            {disk \o <<csv_file(batch, rows, TRUE), json_file(batch, p, FALSE)>> :
                p \in prefixes(pages)}

\* the files on disk after save_progress(batch) came to outcome
saved_files(outcome, batch) ==
    LET rows == export_to_dataframe(scraped_pages) IN
    CASE outcome \in {"nothing", "makedirs"} -> {disk}
      [] outcome = "saved" ->
            {disk \o <<csv_file(batch, rows, TRUE),
                       json_file(batch, scraped_pages, TRUE)>>}
      [] outcome = "csv" ->
            {disk} \cup {Append(disk, csv_file(batch, p, FALSE)) : p \in prefixes(rows)}
      [] outcome = "json" ->
            {disk \o <<csv_file(batch, rows, TRUE), json_file(batch, p, FALSE)>> :
                p \in prefixes(scraped_pages)}

\* save_progress(batch_number) after a batch, save_progress() after the loop
\* (then print_final_stats and return); os.makedirs is outside the try
save_progress ==
    /\ pc \in {"save", "final_save"}
    /\ \E outcome \in save_outcomes :
        /\ disk' \in saved_files(outcome, IF pc = "save" THEN batch_number ELSE 0)
        /\ faults' = IF outcome \in {"makedirs", "csv", "json"}
                     THEN faults + 1 ELSE faults
        /\ pc' = IF outcome = "makedirs" THEN "raised"
                 ELSE IF pc = "save" THEN "explore" ELSE "done"
    /\ explore_next' = 1
    /\ UNCHANGED <<config_vars, next_entry, scraped_titles, queued_titles,
                   failed_titles, scraped_pages, stats, all_pages_to_scrape,
                   loop_vars, futures, scraped_batch, worker_history,
                   expander_history, score_vars, other_vars>>

----------------------------------------------------------------------------
(* CrawlScheduler: link expansion after the batch.                         *)

\* for page in scraped_batch: if len(self.scraped_titles) < max_total_pages:
\*     all_pages_to_scrape.extend(self.explore_links(page, depth=1))
explore_page ==
    /\ pc = "explore"
    /\ explore_next <= Len(scraped_batch)
    /\ LET page == scraped_batch[explore_next]
           r == explore_links(page, 1, scraped_titles, queued_titles) IN
       IF Cardinality(scraped_titles) < max_total_pages
       THEN /\ all_pages_to_scrape' = all_pages_to_scrape \o r.links
            /\ queued_titles' = r.queued
            /\ admitted(r.links, path_len[page.requested] + 1, 1)
            /\ expanded_depth' = [expanded_depth EXCEPT ![page.requested] = 1]
       ELSE UNCHANGED <<all_pages_to_scrape, queued_titles, expander_history>>
    /\ explore_next' = explore_next + 1
    /\ UNCHANGED <<config_vars, pc, next_entry, scraped_titles, failed_titles,
                   scraped_pages, stats, loop_vars, futures, scraped_batch, disk,
                   faults, worker_history, score_vars, other_vars>>

\* the next value of i from range()
\* the loop taking the stop of its range from the list as it has grown
explore_done_rescan ==
    /\ pc = "explore"
    /\ explore_next > Len(scraped_batch)
    /\ i' = i + batch_size
    /\ range_stop' = Len(all_pages_to_scrape)
    /\ pc' = "loop"
    /\ UNCHANGED <<config_vars, next_entry, scraped_titles, queued_titles,
                   failed_titles, scraped_pages, stats, all_pages_to_scrape,
                   batch_number, futures, scraped_batch, explore_next,
                   disk, faults, worker_history, expander_history, score_vars, other_vars>>

explore_done ==
    /\ pc = "explore"
    /\ explore_next > Len(scraped_batch)
    /\ i' = i + batch_size
    /\ pc' = "loop"
    /\ UNCHANGED <<config_vars, next_entry, scraped_titles, queued_titles,
                   failed_titles, scraped_pages, stats, all_pages_to_scrape,
                   range_stop, batch_number, futures, scraped_batch, explore_next,
                   disk, faults, worker_history, expander_history, score_vars, other_vars>>

----------------------------------------------------------------------------
(* The run.                                                                *)

Next ==
    \/ enumerate_portal
    \/ portals_done
    \/ enumerate_category
    \/ entry_point_raises
    \/ remove_duplicates
    \/ next_batch
    \/ loop_exit
    \/ \E f \in 1..batch_size :
        \/ fetch_page(f)
        \/ mark_not_found(f)
        \/ read_total_scraped(f)
        \/ write_total_scraped(f)
        \/ read_total_words(f)
        \/ write_total_words(f)
        \/ read_agriculture_pages(f)
        \/ write_agriculture_pages(f)
        \/ add_scraped(f)
        \/ discard_queued(f)
        \/ except_add_failed(f)
        \/ except_discard_queued(f)
    \/ collect_batch
    \/ save_progress
    \/ explore_page
    \/ explore_done

Spec == Init /\ [][Next]_vars

\* the runs with a pool narrower than the batch
SpecNarrowPool == InitNarrowPool /\ [][Next]_vars

\* the runs with max_depth = 1
SpecDepthOne == InitDepthOne /\ [][Next]_vars

----------------------------------------------------------------------------
(* The scorer on its own: every title, body and category list of the bounds. *)

Vocabulary == {"Agri", "culture", "Farm"}
CategoryNames == {"Farming", "Sports"}

SeqsUpTo(S, n) == UNION {[1..m -> S] : m \in 0..n}

InitScore ==
    /\ AGRICULTURE_PORTALS = <<>>
    /\ AGRICULTURE_CATEGORIES = <<>>
    /\ SCRAPING_CONFIG = [max_depth |-> max_depth]
    /\ executor_max_workers = max_workers
    /\ InitScraper
    /\ InitOthersIdle
    /\ sc_pc = "call"
    /\ sc_title \in {concat(s) : s \in SeqsUpTo(Vocabulary, MaxTitleChunks)}
    /\ sc_content \in {concat(s) : s \in SeqsUpTo(Vocabulary, MaxContentChunks)}
    /\ sc_categories \in {texts_of(s) : s \in SeqsUpTo(CategoryNames, MaxCategories)}
    /\ sc_score = 0
    /\ sc_appended = <<>>
    /\ sc_score_longer = 0

score_call ==
    /\ sc_pc = "call"
    /\ sc_score' = calculate_agriculture_score(sc_title, sc_content, sc_categories)
    /\ sc_pc' = "returned"
    /\ UNCHANGED <<crawl_vars, other_vars, sc_title, sc_content, sc_categories,
                   sc_appended, sc_score_longer>>

NextScore == score_call

SpecScore == InitScore /\ [][NextScore]_vars

----------------------------------------------------------------------------
(* The scorer on a body and on the same body with more text appended.      *)

MonotoneTitles == {"", "Farm", "Sports"}

InitMonotone ==
    /\ AGRICULTURE_PORTALS = <<>>
    /\ AGRICULTURE_CATEGORIES = <<>>
    /\ SCRAPING_CONFIG = [max_depth |-> max_depth]
    /\ executor_max_workers = max_workers
    /\ InitScraper
    /\ InitOthersIdle
    /\ sc_pc = "call"
    /\ sc_title \in {chars[t] : t \in MonotoneTitles}
    /\ sc_content \in {concat(s) : s \in SeqsUpTo(Vocabulary, MaxContentChunks)}
    /\ sc_appended \in {concat(s) : s \in SeqsUpTo(Vocabulary, MaxAppendedChunks)}
    /\ sc_categories \in {texts_of(s) : s \in SeqsUpTo(CategoryNames, MaxCategories)}
    /\ sc_score = 0
    /\ sc_score_longer = 0

\* the scorer called on the body and on the body with the text appended
score_pair ==
    /\ sc_pc = "call"
    /\ sc_score' = calculate_agriculture_score(sc_title, sc_content, sc_categories)
    /\ sc_score_longer' =
            calculate_agriculture_score(sc_title, sc_content \o sc_appended,
                                        sc_categories)
    /\ sc_pc' = "returned"
    /\ UNCHANGED <<crawl_vars, other_vars, sc_title, sc_content, sc_categories, sc_appended>>

NextMonotone == score_pair

SpecMonotone == InitMonotone /\ [][NextMonotone]_vars

----------------------------------------------------------------------------
(* run_comprehensive_scraping.py: the recursive scraper.  A url is written *)
(* by the name that follows "https://en.wikipedia.org/wiki/": the prefix   *)
(* is the same for every url and holds no keyword.                         *)

MaxRuns == 2
MaxWebFaults == 1

START_URL == "Portal:Agriculture"
MAX_DEPTH == 2

\* links[:20]
link_limit == 3

\* len(page.text.strip()) > 500
min_text_length == 10

AGRI_KEYWORDS ==
    <<
       <<"a","g","r","i">>,
       <<"f","a","r","m">>,
       <<"c","r","o","p">>,
       <<"s","o","i","l">>,
       <<"i","r","r","i","g">>,
       <<"f","e","r","t","i","l","i","z","e","r">>,
       <<"p","e","s","t","i","c","i","d","e">>,
       <<"l","i","v","e","s","t","o","c","k">>,
       <<"h","o","r","t","i","c","u","l","t","u","r","e">>,
       <<"h","a","r","v","e","s","t">>,
       <<"p","l","a","n","t","a","t","i","o","n">>,
       <<"f","o","o","d">>,
       <<"s","u","s","t","a","i","n","a","b","l","e">>,
       <<"c","l","i","m","a","t","e">>,
       <<"d","r","o","u","g","h","t">>,
       <<"r","u","r","a","l">>,
       <<"f","a","r","m","i","n","g">>,
       <<"c","a","t","t","l","e">>,
       <<"d","a","i","r","y">>
    >>

Urls ==
    {"Portal:Agriculture", "Farm", "Farms", "Soil", "Crop", "Sport", "Bread",
     "Food", "Category:Crops", "Category:Games"}

\* the hrefs of a page that is_valid_link lets through, in page order
site ==
    ( "Portal:Agriculture" :> <<"Farm", "Category:Crops", "Category:Games", "Food">> @@
      "Farm" :> <<"Sport", "Soil", "Portal:Agriculture">> @@
      "Farms" :> <<"Farm">> @@
      "Soil" :> <<"Crop", "Farms">> @@
      "Crop" :> <<"Food", "Farms">> @@
      "Sport" :> <<>> @@
      "Bread" :> <<>> @@
      "Food" :> <<"Farm">> @@
      "Category:Crops" :> <<"Crop", "Soil", "Farm">> @@
      "Category:Games" :> <<"Sport", "Bread", "Crop">> )

\* is_agri_related(title_or_url)
is_agri_related ==
    [u \in Urls |->
        \E k \in 1..Len(AGRI_KEYWORDS) : contains(lower(chars[u]), AGRI_KEYWORDS[k])]

\* "Category:" in url
is_category ==
    [u \in Urls |-> contains(chars[u], <<"C","a","t","e","g","o","r","y",":">>)]

\* str.strip() of spaces
RECURSIVE strip_left(_)
strip_left(s) == IF s # <<>> /\ Head(s) = " " THEN strip_left(Tail(s)) ELSE s
RECURSIVE strip_right(_)
strip_right(s) ==
    IF s # <<>> /\ s[Len(s)] = " " THEN strip_right(SubSeq(s, 1, Len(s) - 1)) ELSE s
strip(s) == strip_right(strip_left(s))

\* page.exists() and len(page.text.strip()) > 500
article_found ==
    [u \in Urls |->
        /\ wiki[u].exists
        /\ Len(strip(chars[wiki[u].text])) > min_text_length]

\* the dict scrape_article appends
article(u) ==
    [title |-> IF u \in Titles THEN canonical_title[u] ELSE u,
     url |-> u,
     content |-> strip(chars[wiki[u].text]),
     categories |-> wiki[u].categories]

\* what scrape_article(url) can leave in results: the article appended, or
\* nothing when the page is missing or short or the request raised
scrape_article(u) ==
    {IF article_found[u] THEN Append(results, article(u)) ELSE results}
    \cup (IF web_faults < MaxWebFaults THEN {results} ELSE {})

\* what extract_links(url) can return: the links of the page, or [] when the
\* request failed
extract_links(u) ==
    {site[u]} \cup (IF web_faults < MaxWebFaults THEN {<<>>} ELSE {})

\* a process of the script starts: the module's globals
InitGlobals ==
    /\ visited = {}
    /\ results = <<>>
    /\ call_stack = <<>>
    /\ main_pc = "load"
    /\ web_faults = 0
    /\ visited_at = [u \in Urls |-> -1]
    /\ extracted_at = [u \in Urls |-> -1]
    /\ scrapes = [u \in Urls |-> 0]
    /\ loaded = {}

InitRecursive ==
    /\ AGRICULTURE_PORTALS = <<>>
    /\ AGRICULTURE_CATEGORIES = <<>>
    /\ SCRAPING_CONFIG = [max_depth |-> max_depth]
    /\ executor_max_workers = max_workers
    /\ InitScraper
    /\ InitScoreIdle
    /\ InitEnhancedIdle
    /\ InitGlobals
    /\ output_file = [exists |-> FALSE, content |-> <<>>]
    /\ runs = 1

recursive_history == <<visited_at, extracted_at, scrapes, loaded>>
recursive_frame == UNCHANGED <<crawl_vars, score_vars, enhanced_vars>>

\* the resume that reloads the articles and forgets their urls
main_load_results_only ==
    /\ main_pc = "load"
    /\ IF output_file.exists
       THEN /\ results' = results \o output_file.content
            /\ loaded' =
                    {output_file.content[n].url : n \in 1..Len(output_file.content)}
            /\ UNCHANGED visited
       ELSE UNCHANGED <<results, visited, loaded>>
    /\ main_pc' = "call"
    /\ UNCHANGED <<output_file, call_stack, runs, web_faults, visited_at,
                   extracted_at, scrapes>>
    /\ recursive_frame

\* __main__: results.extend(existing); visited.update(urls of existing);
\* FileNotFoundError starts fresh
main_load ==
    /\ main_pc = "load"
    /\ IF output_file.exists
       THEN /\ results' = results \o output_file.content
            /\ visited' = visited \cup
                    {output_file.content[n].url : n \in 1..Len(output_file.content)}
            /\ loaded' =
                    {output_file.content[n].url : n \in 1..Len(output_file.content)}
       ELSE UNCHANGED <<results, visited, loaded>>
    /\ main_pc' = "call"
    /\ UNCHANGED <<output_file, call_stack, runs, web_faults, visited_at,
                   extracted_at, scrapes>>
    /\ recursive_frame

\* if url in visited or depth > MAX_DEPTH: return
returns_at_once(url, depth) == url \in visited \/ depth > MAX_DEPTH

\* a frame of recursive_scrape(url, depth) after visited.add(url)
entered(url, depth) == [url |-> url, depth |-> depth, pc |-> "scrape", links |-> <<>>, k |-> 1]

\* __main__: recursive_scrape(START_URL, depth=0), up to visited.add
main_call ==
    /\ main_pc = "call"
    /\ IF returns_at_once(START_URL, 0)
       THEN /\ main_pc' = "dump"
            /\ UNCHANGED <<visited, call_stack, visited_at>>
       ELSE /\ visited' = visited \cup {START_URL}
            /\ visited_at' = [visited_at EXCEPT ![START_URL] = 0]
            /\ call_stack' = <<entered(START_URL, 0)>>
            /\ main_pc' = "scraping"
    /\ UNCHANGED <<results, output_file, runs, web_faults, extracted_at,
                   scrapes, loaded>>
    /\ recursive_frame

top == call_stack[Len(call_stack)]
popped == SubSeq(call_stack, 1, Len(call_stack) - 1)
top_at(position) == main_pc = "scraping" /\ top.pc = position

\* the call on top returns: to its caller's loop, or to __main__
return_to(stack) ==
    /\ call_stack' = stack
    /\ main_pc' = IF stack = <<>> THEN "dump" ELSE "scraping"

\* the stop before extract_links taken one level too late
at_depth_limit_late(depth) == depth > MAX_DEPTH

\* the depth at which recursive_scrape stops before extract_links
at_depth_limit(depth) == depth >= MAX_DEPTH

\* if is_agri_related(url): scrape_article(url)
\* if depth >= MAX_DEPTH: return
scrape_url ==
    /\ top_at("scrape")
    /\ IF is_agri_related[top.url]
       THEN /\ \E r \in scrape_article(top.url) :
                /\ results' = r
                /\ web_faults' = IF article_found[top.url] /\ r = results
                                 THEN web_faults + 1 ELSE web_faults
            /\ scrapes' = [scrapes EXCEPT ![top.url] = @ + 1]
       ELSE UNCHANGED <<results, web_faults, scrapes>>
    /\ IF at_depth_limit(top.depth)
       THEN return_to(popped)
       ELSE /\ call_stack' = [call_stack EXCEPT ![Len(call_stack)].pc = "extract"]
            /\ UNCHANGED main_pc
    /\ UNCHANGED <<visited, output_file, runs, visited_at, extracted_at, loaded>>
    /\ recursive_frame

\* links = extract_links(url); for link in links[:20]
extract_page ==
    /\ top_at("extract")
    /\ \E links \in extract_links(top.url) :
        /\ call_stack' = [call_stack EXCEPT ![Len(call_stack)] =
                [@ EXCEPT !.pc = "loop", !.links = take(links, link_limit), !.k = 1]]
        /\ web_faults' = IF links # site[top.url] THEN web_faults + 1 ELSE web_faults
    /\ extracted_at' = [extracted_at EXCEPT ![top.url] = top.depth]
    /\ UNCHANGED <<visited, results, output_file, main_pc, runs, visited_at,
                   scrapes, loaded>>
    /\ recursive_frame

\* if link not in visited and (is_agri_related(link) or "Category:" in link)
followed(link) == link \notin visited /\ (is_agri_related[link] \/ is_category[link])

\* one turn of the loop over the links: a link that is followed is entered
\* by recursive_scrape(link, depth + 1), up to visited.add
follow_link ==
    /\ top_at("loop")
    /\ top.k <= Len(top.links)
    /\ LET link == top.links[top.k]
           caller == [call_stack EXCEPT ![Len(call_stack)].k = @ + 1] IN
       IF followed(link) /\ ~returns_at_once(link, top.depth + 1)
       THEN /\ visited' = visited \cup {link}
            /\ visited_at' = [visited_at EXCEPT ![link] = top.depth + 1]
            /\ call_stack' = Append(caller, entered(link, top.depth + 1))
       ELSE /\ call_stack' = caller
            /\ UNCHANGED <<visited, visited_at>>
    /\ UNCHANGED <<results, output_file, main_pc, runs, web_faults, extracted_at,
                   scrapes, loaded>>
    /\ recursive_frame

\* the loop over the links is through: recursive_scrape returns
links_done ==
    /\ top_at("loop")
    /\ top.k > Len(top.links)
    /\ return_to(popped)
    /\ UNCHANGED <<visited, results, output_file, runs, web_faults,
                   recursive_history>>
    /\ recursive_frame

\* __main__: json.dump(results) to OUTPUT_FILE; the process ends
main_dump ==
    /\ main_pc = "dump"
    /\ output_file' = [exists |-> TRUE, content |-> results]
    /\ main_pc' = "exited"
    /\ UNCHANGED <<visited, results, call_stack, runs, web_faults,
                   recursive_history>>
    /\ recursive_frame

\* the script is started again, with the file the last process left
start_again ==
    /\ main_pc = "exited"
    /\ runs < MaxRuns
    /\ runs' = runs + 1
    /\ visited' = {}
    /\ results' = <<>>
    /\ call_stack' = <<>>
    /\ main_pc' = "load"
    /\ web_faults' = 0
    /\ visited_at' = [u \in Urls |-> -1]
    /\ extracted_at' = [u \in Urls |-> -1]
    /\ scrapes' = [u \in Urls |-> 0]
    /\ loaded' = {}
    /\ UNCHANGED output_file
    /\ recursive_frame

NextRecursive ==
    \/ main_load
    \/ main_call
    \/ scrape_url
    \/ extract_page
    \/ follow_link
    \/ links_done
    \/ main_dump
    \/ start_again

SpecRecursive == InitRecursive /\ [][NextRecursive]_vars

\* the process keeps executing its statements
SpecRecursiveFair == SpecRecursive /\ WF_vars(NextRecursive)

----------------------------------------------------------------------------
(* enhanced_scraper.py: EnhancedAgricultureScraper.                        *)

MaxTopics == 2
MaxPagesArg == 4
MaxApiFaults == 1

\* scrape_topic_network(topic, max_pages=10)
topic_max_pages == 4

\* the names a topic list is made of
TopicNames == {"Farm", "Farms", "Soil", "Ghost farm", "Portal:Farming"}

agriculture_keywords ==
    <<
       <<"a","g","r","i","c","u","l","t","u","r","e">>,
       <<"f","a","r","m">>,
       <<"c","r","o","p">>,
       <<"s","o","i","l">>,
       <<"i","r","r","i","g","a","t","i","o","n">>,
       <<"h","a","r","v","e","s","t">>,
       <<"l","i","v","e","s","t","o","c","k">>,
       <<"o","r","g","a","n","i","c">>,
       <<"s","u","s","t","a","i","n","a","b","l","e">>,
       <<"h","o","r","t","i","c","u","l","t","u","r","e">>,
       <<"a","g","r","i">>,
       <<"f","a","r","m","i","n","g">>,
       <<"c","u","l","t","i","v","a","t","i","o","n">>,
       <<"c","a","t","t","l","e">>,
       <<"p","o","u","l","t","r","y">>,
       <<"f","e","r","t","i","l","i","z","e","r">>,
       <<"p","e","s","t","i","c","i","d","e">>,
       <<"a","g","r","o","n","o","m","y">>,
       <<"h","y","d","r","o","p","o","n","i","c","s">>,
       <<"g","r","e","e","n","h","o","u","s","e">>
    >>

\* _is_agriculture_related(page_title, keywords)
is_related_link(link) ==
    \E k \in 1..Len(agriculture_keywords) :
        contains(lower(chars[link]), agriculture_keywords[k])

\* the loop of find_agriculture_related_pages over the links, with its break
RECURSIVE related_loop(_, _, _, _)
related_loop(links, k, related, limit) ==
    IF k > Len(links) THEN related
    ELSE LET found == IF is_related_link(links[k])
                      THEN related \cup {links[k]} ELSE related IN
         IF Cardinality(found) >= limit THEN found
         ELSE related_loop(links, k + 1, found, limit)

\* find_agriculture_related_pages(seed_page_title, max_pages), as a set
find_agriculture_related_pages(seed, limit) ==
    IF ~wiki[seed].exists THEN {}
    ELSE related_loop(take(wiki[seed].links, limit * 2), 1, {}, limit)

\* the AgriculturePage scrape_page builds; requested is a history field
page_data(t) ==
    [title |-> IF t \in Titles THEN canonical_title[t] ELSE t,
     requested |-> t,
     word_count |-> word_count_of(chars[wiki[t].text])]

\* what scrape_page(page_title) can come to
scrape_page_outcomes(t) ==
    {IF wiki[t].exists THEN "scraped" ELSE "missing"}
    \cup (IF api_faults < MaxApiFaults THEN {"error"} ELSE {})

\* scrape_page: the statistics after the call
stats_after(outcome, t) ==
    IF outcome = "scraped"
    THEN [enhanced_stats EXCEPT
            !.successful_scrapes = @ + 1,
            !.total_words = @ + page_data(t).word_count]
    ELSE [enhanced_stats EXCEPT !.failed_scrapes = @ + 1]

\* the removal of duplicates letting the last page of each title stay
RECURSIVE unique_pages_last(_, _)
unique_pages_last(pages, seen_titles) ==
    IF pages = <<>> THEN <<>>
    ELSE IF \E n \in 2..Len(pages) : pages[n].title = Head(pages).title
         THEN unique_pages_last(Tail(pages), seen_titles)
         ELSE <<Head(pages)>> \o unique_pages_last(Tail(pages), seen_titles)

\* "Remove duplicates based on title": the first page of each title stays
RECURSIVE unique_pages(_, _)
unique_pages(pages, seen_titles) ==
    IF pages = <<>> THEN <<>>
    ELSE IF Head(pages).title \in seen_titles
         THEN unique_pages(Tail(pages), seen_titles)
         ELSE <<Head(pages)>>
              \o unique_pages(Tail(pages), seen_titles \cup {Head(pages).title})

enhanced_frame == UNCHANGED <<crawl_vars, score_vars, recursive_vars, AGRICULTURE_TOPICS>>

\* scrape_all_agriculture_topics is called
InitTopics ==
    /\ AGRICULTURE_PORTALS = <<>>
    /\ AGRICULTURE_CATEGORIES = <<>>
    /\ SCRAPING_CONFIG = [max_depth |-> max_depth]
    /\ executor_max_workers = max_workers
    /\ InitScraper
    /\ InitScoreIdle
    /\ InitRecursiveIdle
    /\ InitEnhanced
    /\ AGRICULTURE_TOPICS \in SeqsUpTo(TopicNames, MaxTopics)
    /\ topics_pc = "topics"
    /\ main_topic = ""
    /\ max_pages = 0

\* scrape_topic_network(main_topic, max_pages) is called
InitNetwork ==
    /\ AGRICULTURE_PORTALS = <<>>
    /\ AGRICULTURE_CATEGORIES = <<>>
    /\ SCRAPING_CONFIG = [max_depth |-> max_depth]
    /\ executor_max_workers = max_workers
    /\ InitScraper
    /\ InitScoreIdle
    /\ InitRecursiveIdle
    /\ InitEnhanced
    /\ AGRICULTURE_TOPICS = <<>>
    /\ topics_pc = "main"
    /\ main_topic \in TopicNames
    /\ max_pages \in 0..MaxPagesArg

\* for topic in AGRICULTURE_TOPICS: self.scrape_topic_network(topic, max_pages=10)
next_topic ==
    /\ topics_pc = "topics"
    /\ topic_next <= Len(AGRICULTURE_TOPICS)
    /\ main_topic' = AGRICULTURE_TOPICS[topic_next]
    /\ max_pages' = topic_max_pages
    /\ topic_pages' = <<>>
    /\ scrape_calls' = 0
    /\ topics_pc' = "main"
    /\ UNCHANGED <<topic_next, all_pages, related_pages, related_next,
                   enhanced_stats, enhanced_scraped_pages, api_faults, collected,
                   returned>>
    /\ enhanced_frame

\* scrape_topic_network returns pages: to the loop over the topics, which
\* extends all_pages and removes the duplicates, or to the caller
return_pages(pages) ==
    /\ returned' = pages
    /\ IF AGRICULTURE_TOPICS # <<>>
       THEN /\ all_pages' = unique_pages(all_pages \o pages, {})
            /\ collected' = collected \o pages
            /\ topic_next' = topic_next + 1
            /\ topics_pc' = "topics"
       ELSE /\ topics_pc' = "returned"
            /\ UNCHANGED <<all_pages, collected, topic_next>>

\* scrape_topic_network going on to the related pages without its main page
scrape_main_continues ==
    /\ topics_pc = "main"
    /\ \E outcome \in scrape_page_outcomes(main_topic) :
        /\ enhanced_stats' = stats_after(outcome, main_topic)
        /\ api_faults' = IF outcome = "error" THEN api_faults + 1 ELSE api_faults
        /\ topic_pages' = IF outcome = "scraped"
                          THEN <<page_data(main_topic)>> ELSE <<>>
        /\ topics_pc' = "find"
        /\ UNCHANGED <<all_pages, collected, topic_next, returned>>
    /\ scrape_calls' = scrape_calls + 1
    /\ UNCHANGED <<main_topic, max_pages, related_pages, related_next,
                   enhanced_scraped_pages>>
    /\ enhanced_frame

\* main_page = self.scrape_page(main_topic); if not main_page: return []
scrape_main ==
    /\ topics_pc = "main"
    /\ \E outcome \in scrape_page_outcomes(main_topic) :
        /\ enhanced_stats' = stats_after(outcome, main_topic)
        /\ api_faults' = IF outcome = "error" THEN api_faults + 1 ELSE api_faults
        /\ IF outcome = "scraped"
           THEN /\ topic_pages' = <<page_data(main_topic)>>
                /\ topics_pc' = "find"
                /\ UNCHANGED <<all_pages, collected, topic_next, returned>>
           ELSE /\ topic_pages' = <<>>
                /\ return_pages(<<>>)
    /\ scrape_calls' = scrape_calls + 1
    /\ UNCHANGED <<main_topic, max_pages, related_pages, related_next,
                   enhanced_scraped_pages>>
    /\ enhanced_frame

\* related_pages = self.find_agriculture_related_pages(main_topic,
\* max_pages // 2): list(set) in any order; a failed request raises
find_related ==
    /\ topics_pc = "find"
    /\ \/ /\ related_pages' \in
                orders_of(find_agriculture_related_pages(main_topic, max_pages \div 2))
          /\ related_next' = 1
          /\ topics_pc' = "related"
          /\ UNCHANGED api_faults
       \/ /\ api_faults < MaxApiFaults
          /\ api_faults' = api_faults + 1
          /\ topics_pc' = "raised"
          /\ UNCHANGED <<related_pages, related_next>>
    /\ UNCHANGED <<topic_next, all_pages, main_topic, max_pages, topic_pages,
                   enhanced_stats, enhanced_scraped_pages, collected,
                   scrape_calls, returned>>
    /\ enhanced_frame

\* one turn of "for related_page in related_pages", with its break
scrape_related ==
    /\ topics_pc = "related"
    /\ related_next <= Len(related_pages)
    /\ LET related_page == related_pages[related_next]
           have == \E n \in 1..Len(topic_pages) : topic_pages[n].title = related_page IN
       \E outcome \in (IF have THEN {"skipped"} ELSE scrape_page_outcomes(related_page)) :
        /\ enhanced_stats' = IF have THEN enhanced_stats
                             ELSE stats_after(outcome, related_page)
        /\ api_faults' = IF outcome = "error" THEN api_faults + 1 ELSE api_faults
        /\ scrape_calls' = IF have THEN scrape_calls ELSE scrape_calls + 1
        /\ LET pages == IF outcome = "scraped"
                        THEN Append(topic_pages, page_data(related_page))
                        ELSE topic_pages IN
           /\ topic_pages' = pages
           /\ IF Len(pages) >= max_pages
              THEN /\ return_pages(pages)
                   /\ UNCHANGED related_next
              ELSE /\ related_next' = related_next + 1
                   /\ UNCHANGED <<topics_pc, all_pages, collected, topic_next,
                                  returned>>
    /\ UNCHANGED <<main_topic, max_pages, related_pages, enhanced_scraped_pages>>
    /\ enhanced_frame

\* the loop over the related pages is through: return scraped_pages
related_done ==
    /\ topics_pc = "related"
    /\ related_next > Len(related_pages)
    /\ return_pages(topic_pages)
    /\ UNCHANGED <<main_topic, max_pages, topic_pages, related_pages,
                   related_next, enhanced_stats, enhanced_scraped_pages,
                   api_faults, scrape_calls>>
    /\ enhanced_frame

\* self.stats['total_pages'] = len(all_pages); self.scraped_pages = all_pages
topics_done ==
    /\ topics_pc = "topics"
    /\ topic_next > Len(AGRICULTURE_TOPICS)
    /\ enhanced_stats' = [enhanced_stats EXCEPT !.total_pages = Len(all_pages)]
    /\ enhanced_scraped_pages' = all_pages
    /\ returned' = all_pages
    /\ topics_pc' = "done"
    /\ UNCHANGED <<topic_next, all_pages, main_topic, max_pages, topic_pages,
                   related_pages, related_next, api_faults, collected,
                   scrape_calls>>
    /\ enhanced_frame

NextNetwork ==
    \/ scrape_main
    \/ find_related
    \/ scrape_related
    \/ related_done

NextTopics ==
    \/ next_topic
    \/ NextNetwork
    \/ topics_done

\* one call of scrape_topic_network
SpecNetwork == InitNetwork /\ [][NextNetwork]_vars

\* one call of scrape_all_agriculture_topics
SpecTopics == InitTopics /\ [][NextTopics]_vars

----------------------------------------------------------------------------
(* Properties of the registry and of the frontier.                        *)

registry == scraped_titles \cup queued_titles \cup failed_titles

\* no batch is in flight and the pages of the last batch are in the result list
between_batches == pc \in {"save", "explore", "loop", "final_save", "done"}

records_of(t) ==
    Cardinality({n \in 1..Len(scraped_pages) : scraped_pages[n].requested = t})

\* C1: in every reachable state, also while the workers of a batch run, the
\* sets scraped, queued and failed are pairwise disjoint.
C1_Disjoint ==
    /\ scraped_titles \cap queued_titles = {}
    /\ scraped_titles \cap failed_titles = {}
    /\ queued_titles \cap failed_titles = {}

\* C2: every title is admitted to the candidate list at most once and at most
\* one fetch of it is dispatched to the pool in the whole run.
C2_AtMostOnce ==
    \A t \in Titles : admissions[t] <= 1 /\ attempts[t] <= 1

\* C3: a title that is in scraped or failed, and not in queued, is not put into
\* queued by any step.
C3_NeverReopened ==
    [][\A t \in Titles :
          (t \in scraped_titles \cup failed_titles /\ t \notin queued_titles)
              => t \notin queued_titles']_vars

\* C4: after enumeration and after every completed batch cycle the registry
\* holds at most max_total_pages distinct titles.
C4_CapRespected ==
    pc \in {"loop", "final_save", "done"} =>
        Cardinality(registry) <= max_total_pages

\* C5: a page admitted by link expansion at depth d is expanded with depth
\* d + 1, and no title is admitted max_depth or more links away from the
\* candidate the expansion started from.
C5_DepthBounded ==
    \A t \in Titles :
        /\ (admitted_depth[t] # 0 /\ expanded_depth[t] # 0)
                => expanded_depth[t] = admitted_depth[t] + 1
        /\ admissions[t] > 0 => path_len[t] - 1 < max_depth

\* C6: when the run has returned with the cap not reached, every admitted
\* title has been dispatched and its fetch has resolved.
C6_QueueDrained ==
    (pc = "done" /\ Cardinality(registry) < max_total_pages) =>
        \A t \in Titles :
            admissions[t] > 0 =>
                attempts[t] = admissions[t] /\ last_outcome[t] # "none"

\* C7: a page that was fetched and rejected by score is in scraped and no
\* longer in queued, has no record in the result list, and was fetched once.
C7_RejectedIsScraped ==
    between_batches =>
        \A t \in Titles :
            last_outcome[t] = "rejected" =>
                /\ t \in scraped_titles
                /\ t \notin queued_titles
                /\ records_of(t) = 0
                /\ attempts[t] = 1

\* C8: when the fetches of a batch have been collected, every title of the
\* batch has left queued and is in exactly one terminal set: scraped after a
\* successful fetch, failed after not-found or an error.
C8_BatchResolved ==
    pc = "save" =>
        \A f \in DOMAIN futures :
            LET t == futures[f].title IN
            /\ t \notin queued_titles
            /\ last_outcome[t] \in {"accepted", "rejected"} =>
                    (t \in scraped_titles /\ t \notin failed_titles)
            /\ last_outcome[t] \in {"notfound", "error"} =>
                    (t \in failed_titles /\ t \notin scraped_titles)

----------------------------------------------------------------------------
(* Properties of the scorer.                                               *)

KeywordSet == range_of(AGRICULTURE_KEYWORDS)

\* the places where keyword starts in text, overlapping ones included
occurrences(text, keyword) ==
    {n \in 1..(Len(text) - Len(keyword) + 1) :
        \A m \in 1..Len(keyword) : text[n + m - 1] = keyword[m]}

RECURSIVE total_occurrences(_, _)
total_occurrences(text, keywords) ==
    IF keywords = {} THEN 0
    ELSE LET k == CHOOSE x \in keywords : TRUE IN
         Cardinality(occurrences(text, k)) + total_occurrences(text, keywords \ {k})

keywords_in(text) == {k \in KeywordSet : occurrences(text, k) # {}}

----------------------------------------------------------------------------
(* Properties of error handling, checkpoints and pacing.                   *)

batch_titles == {futures[f].title : f \in DOMAIN futures}

failed_fetch(t) == last_outcome[t] \in {"notfound", "error"}

\* C11: a fetch that reports not-found or raises is recorded in failed for
\* its own title and yields no page; it never stops the other fetches of the
\* batch, and the run is never aborted while a batch is in flight.
C11_FailureIsolated ==
    /\ (pc = "batch" /\ \E f \in DOMAIN futures : futures[f].pc # "done")
            => \E f \in DOMAIN futures : running(f) \/ can_start(f)
    /\ pc = "raised" => \A f \in DOMAIN futures : futures[f].pc = "done"
    /\ pc = "save" =>
          \A f \in DOMAIN futures :
              /\ futures[f].pc = "done"
              /\ last_outcome[futures[f].title] # "none"
              /\ failed_fetch(futures[f].title) =>
                    /\ futures[f].title \in failed_titles
                    /\ \A n \in 1..Len(scraped_batch) :
                          scraped_batch[n].requested # futures[f].title

\* a second batch has been collected with an accepted page, after a fetch of
\* an earlier batch raised and, in this batch, another reported not-found or
\* raised
C11_Witness ==
    /\ pc = "save"
    /\ batch_number = 2
    /\ \E t \in Titles \ batch_titles : last_outcome[t] = "error"
    /\ \E t \in batch_titles : last_outcome[t] = "accepted"
    /\ \E t \in batch_titles : failed_fetch(t)

\* C12: no failure of a checkpoint attempt (creating the directories,
\* building the table, writing the CSV or the JSON file) leaves
\* save_progress as an exception: after a checkpoint the run goes on.
C12_CheckpointContained ==
    [][(pc \in {"save", "final_save"}) => (pc' # "raised")]_vars

\* a call of save_progress that returned True: both files were written whole
checkpoint_succeeded ==
    /\ pc \in {"save", "final_save"}
    /\ Len(disk') = Len(disk) + 2
    /\ disk'[Len(disk') - 1].complete
    /\ disk'[Len(disk')].complete

\* C13: when the checkpoint after a batch succeeds, durable storage holds
\* every page of the result set of that moment together with the current
\* run statistics.
C13_SnapshotWithStatistics ==
    [][checkpoint_succeeded =>
          /\ \E n \in 1..Len(disk') :
                /\ disk'[n].kind = "json"
                /\ disk'[n].content = scraped_pages
          /\ \E n \in 1..Len(disk') :
                /\ disk'[n].kind = "stats"
                /\ disk'[n].content = stats]_vars

\* the newest file of a kind, as a reader that sorts by modification time
\* finds it; 0 when there is none
latest(kind) ==
    LET found == {n \in 1..Len(disk) : disk[n].kind = kind} IN
    IF found = {} THEN 0 ELSE CHOOSE n \in found : \A m \in found : m <= n

\* C14: at every instant the visible files are whole, and the newest table
\* and the newest full-detail file encode the result set of one completed
\* checkpoint.
C14_AtomicCheckpoint ==
    /\ \A n \in 1..Len(disk) : disk[n].complete
    /\ (latest("csv") = 0) = (latest("json") = 0)
    /\ latest("csv") # 0 =>
          /\ disk[latest("csv")].batch = disk[latest("json")].batch
          /\ disk[latest("csv")].content =
                export_to_dataframe(disk[latest("json")].content)

RECURSIVE words_of(_, _)
\* the word counts of the first n pages, added up
words_of(pages, n) ==
    IF n = 0 THEN 0 ELSE words_of(pages, n - 1) + pages[n].word_count

\* C15: no statistics update is lost: when a batch completes, total_scraped
\* counts every accepted page and total_words is the sum of their word
\* counts, for every interleaving of the workers.
C15_NoLostUpdate ==
    pc = "save" =>
        /\ stats.total_scraped = Len(scraped_pages)
        /\ stats.total_words = words_of(scraped_pages, Len(scraped_pages))

\* C16: every fetch a worker issues is separated from the previous fetch of
\* the same worker by the configured delay, whatever the previous fetch came
\* to.
C16_WorkerPaced == \A w \in 1..max_workers : pacing[w] # "unpaced"

\* two different requested titles that the API answers with one page title
same_page(s, t) ==
    /\ s # t
    /\ wiki[s].exists /\ wiki[t].exists
    /\ canonical_title[s] = canonical_title[t]

\* C17: of two requested titles that resolve to the same canonical page
\* title the registry admits at most one, and the result list never holds
\* two records with the same title.
C17_CanonicalOnce ==
    /\ \A s, t \in Titles :
          same_page(s, t) => ~(admissions[s] > 0 /\ admissions[t] > 0)
    /\ \A m, n \in 1..Len(scraped_pages) :
          m # n => scraped_pages[m].title # scraped_pages[n].title

empty_frontier == AGRICULTURE_PORTALS = <<>> /\ AGRICULTURE_CATEGORIES = <<>>

\* C18: with no portal and no category configured the run dispatches no
\* fetch, raises nothing, goes on to its end and returns an empty result
\* list, with every counter at zero.
C18_EmptyFrontier ==
    empty_frontier =>
        /\ pc \in {"portals", "categories", "loop", "final_save", "done"}
        /\ pc # "done" => ENABLED Next
        /\ \A t \in Titles : attempts[t] = 0 /\ last_outcome[t] = "none"
        /\ scraped_pages = <<>>
        /\ stats = [total_scraped |-> 0, total_words |-> 0, agriculture_pages |-> 0]
        /\ failed_titles = {}

\* the run over the empty configuration has returned
C18_Witness == empty_frontier /\ pc = "done" /\ scraped_pages = <<>>

RECURSIVE members_of(_, _)
\* the links of the first n configured portals or the members of the first
\* n configured categories
members_of(entries, n) ==
    IF n = 0 THEN {}
    ELSE members_of(entries, n - 1) \cup range_of(wiki[entries[n]].links)
                                    \cup range_of(wiki[entries[n]].categorymembers)

\* what the configured seeds link to or hold directly
direct_members ==
    members_of(AGRICULTURE_PORTALS, Len(AGRICULTURE_PORTALS)) \cup
    members_of(AGRICULTURE_CATEGORIES, Len(AGRICULTURE_CATEGORIES))

\* C19: with max_depth = 1 only the direct links and members of the seeds
\* are ever claimed and fetched: no title is put into queued by the link
\* expansion of a fetched page.
C19_DepthOne ==
    SCRAPING_CONFIG.max_depth = 1 =>
        /\ queued_titles \subseteq direct_members
        /\ range_of(all_pages_to_scrape) \subseteq direct_members
        /\ \A t \in Titles :
              /\ (admissions[t] > 0 \/ attempts[t] > 0) => t \in direct_members
              /\ admissions[t] > 0 => admitted_depth[t] = 0 /\ path_len[t] = 1

\* link expansion was called on an accepted seed member that links to an
\* agriculture-related title nobody has claimed, with room under the cap
C19_Witness ==
    /\ SCRAPING_CONFIG.max_depth = 1
    /\ pc = "loop"
    /\ Cardinality(scraped_titles) + Cardinality(queued_titles) < max_total_pages
    /\ \E n \in 1..Len(scraped_pages) :
          /\ expanded_depth[scraped_pages[n].requested] = 1
          /\ \E l \in range_of(scraped_pages[n].links) :
                /\ is_agriculture_related(l)
                /\ l \notin registry
                /\ admissions[l] = 0

\* C20: for any title and category list, the score of a body with further
\* keyword occurrences appended is at least the score of the body.
C20_ScoreMonotone ==
    sc_appended # <<>> /\ sc_pc = "returned" => sc_score_longer >= sc_score

\* a keyword was appended, or one came to be where the body and the appended
\* text meet, and the score has grown
C20_Witness ==
    /\ sc_pc = "returned"
    /\ sc_content # <<>>
    /\ keywords_in(lower(sc_content \o sc_appended)) # keywords_in(lower(sc_content))
    /\ sc_score_longer > sc_score

----------------------------------------------------------------------------
(* Properties of checkpoints, entry points and the batch cycle.            *)

\* the checkpoint of the last batch is whole and is the newest on disk
last_batch_saved ==
    /\ batch_number > 0
    /\ latest("csv") # 0 /\ latest("json") # 0
    /\ disk[latest("csv")].batch = batch_number
    /\ disk[latest("json")].batch = batch_number
    /\ disk[latest("csv")].complete
    /\ disk[latest("json")].complete

\* C21: a checkpoint that follows a checkpoint with the result list unchanged
\* in between (the final save after the save of the last batch) holds the
\* same records, in the same order and with the same field values.
C21_IdempotentCheckpoint ==
    [][(pc = "final_save" /\ checkpoint_succeeded /\ last_batch_saved) =>
          /\ disk'[Len(disk') - 1].content = disk[latest("csv")].content
          /\ disk'[Len(disk')].content = disk[latest("json")].content]_vars

\* after two batches the final save has followed the saved checkpoint of the
\* second batch, which holds pages of both batches
C21_Witness ==
    /\ pc = "done"
    /\ batch_number = 2
    /\ Len(disk) >= 4
    /\ \A n \in (Len(disk) - 3)..Len(disk) : disk[n].complete
    /\ disk[Len(disk)].batch = 0
    /\ disk[Len(disk) - 2].batch = batch_number
    /\ Len(disk[Len(disk)].content) > Len(scraped_batch)
    /\ scraped_batch # <<>>

\* a call of save_progress that failed part-way: it left a truncated file
checkpoint_failed ==
    /\ pc \in {"save", "final_save"}
    /\ Len(disk') > Len(disk)
    /\ ~disk'[Len(disk')].complete

\* C22: when a checkpoint write fails part-way the files of the previous
\* checkpoint are unchanged and the newest table and full-detail file a
\* reader finds are still those of the previous complete checkpoint.
C22_PriorCheckpointLatest ==
    [][(checkpoint_failed /\ latest("csv") # 0 /\ latest("json") # 0
            /\ disk[latest("csv")].complete /\ disk[latest("json")].complete) =>
          /\ SubSeq(disk', 1, Len(disk)) = disk
          /\ latest("csv")' = latest("csv")
          /\ latest("json")' = latest("json")]_vars

\* C23: a not-found answer or a transport error while a configured portal
\* or category is resolved to its members is captured: the enumeration
\* goes on with the remaining entry points and nothing is raised.
C23_EntryPointContained ==
    [][(pc \in {"portals", "categories"}) =>
          /\ pc' # "raised"
          /\ pc' \in {"portals", "categories", "loop"}]_vars

\* how often title t stands in the list
times_in(lst, t) == Cardinality({n \in 1..Len(lst) : lst[n] = t})

\* C24: a title is appended to the candidate list only by a step that also
\* puts it into queued, and only when it was in neither scraped nor queued
\* just before; a title is dispatched to a worker only from that list.
C24_SoleAdmissionGate ==
    [][\A t \in Titles :
          /\ times_in(all_pages_to_scrape', t) > times_in(all_pages_to_scrape, t)
                => /\ t \notin scraped_titles
                   /\ t \notin queued_titles
                   /\ t \in queued_titles'
                   /\ times_in(all_pages_to_scrape', t)
                        = times_in(all_pages_to_scrape, t) + 1
          /\ attempts'[t] > attempts[t]
                => /\ times_in(all_pages_to_scrape, t) > 0
                   /\ admissions[t] > 0]_vars

\* a title claimed by link expansion is being fetched, in a run seeded from
\* a portal
C24_Witness ==
    /\ pc = "batch"
    /\ AGRICULTURE_PORTALS # <<>>
    /\ \E t \in batch_titles :
          /\ admitted_depth[t] = 1
          /\ futures[CHOOSE f \in DOMAIN futures : futures[f].title = t].pc
                \notin {"pending", "done"}

\* C25: the result list is extended, the checkpoint taken and the links
\* expanded only after every fetch of the batch has resolved, and no fetch
\* of a batch is still running when the next batch is dispatched.
C25_BatchBarrier ==
    [][(\/ scraped_pages' # scraped_pages
        \/ disk' # disk
        \/ all_pages_to_scrape' # all_pages_to_scrape
        \/ batch_number' # batch_number)
            => \A f \in DOMAIN futures : futures[f].pc = "done"]_vars

\* a fetch of the second batch is running, after a first batch whose fetches
\* have all resolved, one of them with an accepted page
C25_Witness ==
    /\ pc = "batch"
    /\ batch_number = 2
    /\ \E t, u \in Titles \ batch_titles :
          t # u /\ last_outcome[t] = "accepted" /\ last_outcome[u] # "none"
    /\ \E f \in DOMAIN futures : running(f)

\* C26: at every instant at most as many fetches are in flight as the pool
\* has threads, and no batch handed to the pool holds more titles than the
\* batch size.
C26_PoolAndBatchBounded ==
    /\ Cardinality({f \in DOMAIN futures : running(f)}) <= executor_max_workers
    /\ Len(futures) <= batch_size

\* a full batch cut from a longer candidate list is in the pool, every
\* thread is inside a work item and a title of the batch waits
C26_Witness ==
    /\ pc = "batch"
    /\ Len(all_pages_to_scrape) > batch_size
    /\ Len(futures) = batch_size
    /\ free_workers = {}
    /\ \E f \in DOMAIN futures : futures[f].pc = "pending"

\* C27: every title admitted by link expansion contains, in any case of
\* letters, at least one configured keyword; a linked title with no keyword
\* is not claimed by link expansion.
C27_LinksPrefiltered ==
    [][\A t \in Titles :
          (\/ pc = "explore" /\ t \in queued_titles' \ queued_titles
           \/ admitted_depth'[t] >= 1)
             => keywords_in(lower(chars[t])) # {}]_vars

\* link expansion of a page has claimed a linked title with a keyword and
\* passed over an unclaimed linked title without one, with room under the cap
C27_Witness ==
    /\ Cardinality(scraped_titles) + Cardinality(queued_titles) < max_total_pages
    /\ \E n \in 1..Len(scraped_pages) :
          /\ expanded_depth[scraped_pages[n].requested] = 1
          /\ \E l, m \in range_of(scraped_pages[n].links) :
                /\ admitted_depth[l] = 1
                /\ keywords_in(lower(chars[m])) = {}
                /\ admissions[m] = 0
                /\ m \notin registry

\* C28: the candidate list is changed by the control thread only, in seed
\* enumeration and in link expansion between batches; it is unchanged by
\* every step taken while a batch is in the pool.
C28_ListOwnedByControl ==
    [][all_pages_to_scrape' # all_pages_to_scrape =>
          /\ pc \in {"portals", "categories", "explore"}
          /\ \A f \in DOMAIN futures : ~running(f)]_vars

\* a worker is inside a fetch while the list holds titles appended by link
\* expansion after an earlier batch
C28_Witness ==
    /\ pc = "batch"
    /\ Len(all_pages_to_scrape) > range_stop
    /\ \E f \in DOMAIN futures :
          running(f) /\ futures[f].pc \in {"read_total_scraped", "queued_discard"}

\* C29: the enumeration of one configured entry point, portal or category
\* alike, admits at most max_links_per_page of its linked titles or members.
C29_SeedsCapped ==
    [][(pc \in {"portals", "categories"}) =>
          Len(all_pages_to_scrape') - Len(all_pages_to_scrape)
              <= max_links_per_page]_vars

\* C30: in every reachable state, for every interleaving of the workers,
\* the counter agriculture_pages is at most total_scraped.
C30_RatioAtMostOne == stats.agriculture_pages <= stats.total_scraped

----------------------------------------------------------------------------
(* Properties of the result list and of the batch loop.                    *)

\* C31: after the pages of a batch have been appended, scraped holds as
\* many titles as the result list holds records, and a title is in scraped
\* exactly when a record was produced for it.
C31_ScrapedMatchesResults ==
    between_batches =>
        /\ Cardinality(scraped_titles) = Len(scraped_pages)
        /\ \A t \in Titles : t \in scraped_titles <=> records_of(t) = 1
        /\ \A n \in 1..Len(scraped_pages) :
              scraped_pages[n].requested \in scraped_titles

\* two batches are in the result list, and fetches have been rejected by
\* score and have failed on the way
C31_Witness ==
    /\ pc = "save"
    /\ batch_number = 2
    /\ Len(scraped_pages) >= 2
    /\ \E t \in Titles : last_outcome[t] = "rejected"
    /\ \E t \in Titles : failed_fetch(t)

\* the run has returned or has ended with an exception
terminated == pc \in {"done", "raised"}

\* the iterations of range(0, range_stop, batch_size) from value j on
iterations_from(j) ==
    IF j >= range_stop THEN 0
    ELSE (range_stop - j + batch_size - 1) \div batch_size

\* the steps a work item has before it, at most
steps_left(at) ==
    CASE at = "pending" -> 11
      [] at = "read_total_scraped" -> 8
      [] at = "write_total_scraped" -> 7
      [] at = "read_total_words" -> 6
      [] at = "write_total_words" -> 5
      [] at = "read_agriculture_pages" -> 4
      [] at = "write_agriculture_pages" -> 3
      [] at = "scraped_add" -> 2
      [] at = "queued_discard" -> 1
      [] at = "except_add" -> 2
      [] at = "except_discard" -> 1
      [] at = "failed_add" -> 1
      [] at = "done" -> 0

RECURSIVE pool_steps_left(_)
pool_steps_left(n) ==
    IF n = 0 THEN 0 ELSE pool_steps_left(n - 1) + steps_left(futures[n].pc)

\* more than the steps of one batch cycle
cycle_steps == 13 * batch_size + 4

\* more than the steps of the whole batch loop, whatever the seeds
loop_steps ==
    cycle_steps * (Len(AGRICULTURE_PORTALS) * max_links_per_page
                   + Len(AGRICULTURE_CATEGORIES) * max_pages_per_category + 1) + 2

\* a bound on the steps the run has before it: the variant of the run
steps_before_end ==
    CASE pc = "portals" ->
            loop_steps + Len(AGRICULTURE_CATEGORIES) + 3
                + (Len(AGRICULTURE_PORTALS) + 1 - next_entry)
      [] pc = "categories" ->
            loop_steps + 1 + (Len(AGRICULTURE_CATEGORIES) + 1 - next_entry)
      [] pc = "loop" -> cycle_steps * iterations_from(i) + 2
      [] pc = "batch" ->
            cycle_steps * iterations_from(i + batch_size) + 2
                + pool_steps_left(Len(futures)) + batch_size + 3
      [] pc = "save" ->
            cycle_steps * iterations_from(i + batch_size) + 2
                + Len(scraped_batch) + 2
      [] pc = "explore" ->
            cycle_steps * iterations_from(i + batch_size) + 2
                + (Len(scraped_batch) + 1 - explore_next) + 1
      [] pc = "final_save" -> 1
      [] pc \in {"done", "raised"} -> 0

\* a step of the run is possible, by the guards of its statements: the
\* enumeration and the loops either go on or leave, a checkpoint always has an
\* outcome, and the pool has a work item inside a thread, a free thread for
\* the oldest waiting one, or nothing left but to join
some_step_possible ==
    CASE pc \in {"portals", "categories"} ->
            next_entry <= Len(AGRICULTURE_PORTALS) + Len(AGRICULTURE_CATEGORIES) + 1
      [] pc = "loop" ->
            \/ i < range_stop
            \/ i >= range_stop
            \/ Cardinality(scraped_titles) >= max_total_pages
      [] pc = "batch" ->
            \/ \A f \in DOMAIN futures : futures[f].pc = "done"
            \/ \E f \in DOMAIN futures : running(f) \/ can_start(f)
      [] pc \in {"save", "final_save"} -> save_outcomes # {}
      [] pc = "explore" ->
            explore_next <= Len(scraped_batch) \/ explore_next > Len(scraped_batch)
      [] pc \in {"done", "raised"} -> FALSE

\* the batches range(0, n, batch_size) has
batches_of(n) == (n + batch_size - 1) \div batch_size

\* C32: the run terminates when every fetch terminates: until it has ended
\* some step is possible and every step brings the end nearer; and it
\* processes at most ceil(N0 / batch_size) batches, N0 being the number of
\* distinct seeds the enumeration left in the list: the stop of the range is
\* set to N0 when the loop is entered and never again, so that titles
\* appended by link expansion add no batch.
C32_TerminatesInSeedBatches ==
    /\ [](~terminated => some_step_possible)
    /\ [](steps_before_end >= 0)
    /\ [][/\ steps_before_end' < steps_before_end
          /\ (pc = "categories" /\ pc' = "loop") =>
                /\ range_stop' = Len(all_pages_to_scrape')
                /\ range_stop' = Cardinality(range_of(all_pages_to_scrape'))
                /\ range_stop' = Cardinality(queued_titles')
          /\ (pc \notin {"portals", "categories"}) => range_stop' = range_stop
          /\ batch_number' <= batches_of(range_stop')]_vars

\* the run has returned after the batches the seeds fill, with titles
\* appended by link expansion in the list that would fill one batch more
C32_Witness ==
    /\ pc = "done"
    /\ batch_number >= 1
    /\ batch_number = iterations_from(0)
    /\ Len(all_pages_to_scrape) > batch_number * batch_size

\* sequence s is the beginning of sequence t
is_prefix(s, t) == Len(s) <= Len(t) /\ SubSeq(t, 1, Len(s)) = s

\* C33: the result list only grows: every step leaves the records it holds
\* in place and unchanged, and the pages a successful checkpoint writes
\* include the pages of every file written before it in the run.
C33_ResultsOnlyGrow ==
    [][/\ is_prefix(scraped_pages, scraped_pages')
       /\ checkpoint_succeeded =>
            \A n \in 1..Len(disk) :
                IF disk[n].kind = "json"
                THEN /\ is_prefix(disk[n].content, disk'[Len(disk')].content)
                     /\ range_of(disk[n].content)
                            \subseteq range_of(disk'[Len(disk')].content)
                ELSE is_prefix(disk[n].content, disk'[Len(disk') - 1].content)]_vars

\* two checkpoints have succeeded, the later one with more pages
C33_Witness ==
    \E m, n \in 1..Len(disk) :
        /\ m < n
        /\ disk[m].kind = "json" /\ disk[m].complete
        /\ disk[n].kind = "json" /\ disk[n].complete
        /\ disk[m].content # <<>>
        /\ Len(disk[n].content) > Len(disk[m].content)
        /\ disk[m].batch = 1 /\ disk[n].batch = 2

----------------------------------------------------------------------------
(* Properties of the recursive scraper.                                    *)

\* the urls a path of at most n links leads to from START_URL
RECURSIVE within(_)
within(n) ==
    IF n = 0 THEN {START_URL}
    ELSE within(n - 1) \cup UNION {range_of(site[u]) : u \in within(n - 1)}

depth_bounded ==
    /\ \A n \in 1..Len(call_stack) :
          /\ call_stack[n].depth <= MAX_DEPTH
          /\ call_stack[n].pc \in {"extract", "loop"} => call_stack[n].depth < MAX_DEPTH
    /\ \A u \in Urls :
          /\ visited_at[u] <= MAX_DEPTH
          /\ extracted_at[u] < MAX_DEPTH
          /\ u \in visited => u \in within(MAX_DEPTH)

\* C34: recursive_scrape enters no url at a depth above MAX_DEPTH and
\* extracts no links of a url entered at depth MAX_DEPTH, every visited url
\* is within MAX_DEPTH links of START_URL, and the recursion returns.
C34_DepthBoundedRecursion ==
    /\ []depth_bounded
    /\ (main_pc = "call") ~> (main_pc = "dump")

\* the recursion has returned having entered a url with links at depth
\* MAX_DEPTH, whose links were left alone, and a url three links away was
\* never entered
C34_Witness ==
    /\ main_pc = "exited"
    /\ \E u \in Urls :
          /\ visited_at[u] = MAX_DEPTH
          /\ site[u] # <<>>
          /\ extracted_at[u] = -1
          /\ \E l \in range_of(site[u]) : l \notin visited /\ is_agri_related[l]
    /\ Urls \ visited # {}

\* C35: in a run no url is scraped twice, a url taken from the output file
\* of an earlier run is neither entered nor scraped, and results holds no
\* two entries with the same url.
C35_UrlScrapedOnce ==
    /\ \A u \in Urls : scrapes[u] <= 1
    /\ \A u \in loaded : scrapes[u] = 0 /\ visited_at[u] = -1
    /\ \A m, n \in 1..Len(results) : m # n => results[m].url # results[n].url

\* a resumed run has ended with the articles of the file and a new one
C35_Witness ==
    /\ main_pc = "exited"
    /\ runs = 2
    /\ loaded # {}
    /\ Len(results) > Cardinality(loaded)
    /\ \E u \in Urls \ loaded : scrapes[u] = 1

----------------------------------------------------------------------------
(* Properties of the enhanced scraper.                                     *)

\* the first page of the title among the pages
first_of(title, pages) ==
    pages[CHOOSE n \in 1..Len(pages) :
            /\ pages[n].title = title
            /\ \A m \in 1..(n - 1) : pages[m].title # title]

\* C36: after each topic, and in the list that is returned and stored in
\* scraped_pages, no two pages have the same title, every title collected
\* so far has its first-collected page in the list, and at the end
\* total_pages is the length of the list.
C36_UniqueTitlesFirstKept ==
    topics_pc \in {"topics", "done"} =>
        /\ \A m, n \in 1..Len(all_pages) :
              m # n => all_pages[m].title # all_pages[n].title
        /\ \A k \in 1..Len(collected) :
              \E n \in 1..Len(all_pages) : all_pages[n].title = collected[k].title
        /\ \A n \in 1..Len(all_pages) :
              /\ \E k \in 1..Len(collected) : collected[k].title = all_pages[n].title
              /\ all_pages[n] = first_of(all_pages[n].title, collected)
        /\ topics_pc = "done" =>
              /\ returned = all_pages
              /\ enhanced_scraped_pages = all_pages
              /\ enhanced_stats.total_pages = Len(all_pages)

\* the call has returned two pages or more, having dropped a page whose
\* title a page collected earlier has
C36_Witness ==
    /\ topics_pc = "done"
    /\ Len(all_pages) >= 2
    /\ Len(collected) > Len(all_pages)
    /\ \E k \in 1..Len(collected) : collected[k] \notin range_of(all_pages)

\* C37: scrape_topic_network returns an empty list, with no related page
\* scraped, when its main topic cannot be scraped; otherwise the list it
\* returns starts with the page of the main topic and, for max_pages of two
\* or more, holds at most max_pages pages.
C37_NetworkOfMainTopic ==
    topics_pc = "returned" =>
        /\ ~wiki[main_topic].exists => returned = <<>>
        /\ (enhanced_stats.successful_scrapes = 0) = (returned = <<>>)
        /\ returned = <<>> => scrape_calls = 1 /\ related_pages = <<>>
        /\ returned # <<>> =>
              /\ returned[1] = page_data(main_topic)
              /\ max_pages >= 2 => Len(returned) <= max_pages

\* the call has returned as many pages as max_pages allows, related pages
\* among them
C37_Witness ==
    /\ topics_pc = "returned"
    /\ max_pages >= 2
    /\ Len(returned) = max_pages
    /\ scrape_calls >= 2

====
